---- MODULE Spec2Model ----
(***************************************************************************)
(* Local infographic renderer (backend/core/diagrams/infographic.py):      *)
(* spec normalisation, layout and the PNG / SVG backends, driven through   *)
(* render_infographic_png_svg.                                             *)
(*                                                                         *)
(* Python values are tagged records (None, numbers, strings, lists,        *)
(* dicts).  A string is a sequence of characters; a CJK character of the   *)
(* source's literals is written as one pinyin token, so that lengths,      *)
(* prefixes and widths count one unit per character as str does.           *)
(***************************************************************************)
EXTENDS Integers, Sequences, FiniteSets, TLC

\* ------------------------------------------------------------------------
\* State: one caller issuing calls of render_infographic_png_svg one after
\* another; a call passes through the dispatcher, the normaliser, the
\* renderer and the return
\* ------------------------------------------------------------------------
VARIABLES
  pc,            \* "idle", "normalize", "render", "return" or "done"
  call_type,     \* arguments of the current call
  raw_spec,
  call_title,
  dt,            \* the stripped diagram type the dispatcher branched on
  norm_spec,     \* the normalised spec last computed; None once released
  out,           \* (png, svg) last rendered; None once released
  result,        \* how the call ended: it returned (png, svg, spec) or raised
  steps,         \* the steps the current call has run, in order
  pillow,        \* whether PIL can be imported in this process
  font_files,    \* the candidate font files that exist
  used_files,    \* the font files the current call's renderer saw
  prev,          \* the first call completed since the caller last released
  threads,       \* the locals of the calls running in worker threads
  wrap_call,     \* the last direct call of _wrap_text / _wrap_bullet and its lines
  loop,          \* the request whose handler runs on the event loop, 0 if none
  requests,      \* the generate-diagram requests of the server
  assets_call    \* the last direct call of _render_local_infographic_assets

vars ==
  <<pc, call_type, raw_spec, call_title, dt, norm_spec, out, result, steps, pillow,
    font_files, used_files, prev, threads, wrap_call, loop, requests, assets_call>>

\* the state of the route module
route_vars == <<loop, requests, assets_call>>

\* ------------------------------------------------------------------------
\* Bounds of the explored inputs
\* ------------------------------------------------------------------------
MaxPad == 1          \* leading / trailing blanks tried around a title
MaxTail == 2         \* characters tried after the cap boundary of a title
MaxThreads == 2      \* calls that run at the same time in worker threads
MaxWrapLen == 3      \* characters of the texts given to the wrappers directly
MaxRequests == 2     \* generate-diagram requests the server holds at one time
MaxPoints == 13      \* lines of the longest text of points given to the helper
MaxEntries == 7      \* length of the marked lists of stages / work packages tried

\* ------------------------------------------------------------------------
\* Program constants (literals of infographic.py)
\* ------------------------------------------------------------------------
StageTitleCap == 32
BoxTitleCap == 28
BulletLimit == 4
StageMax == 6
StageMin == 3
WpTotal == 3

\* ------------------------------------------------------------------------
\* Python values
\* ------------------------------------------------------------------------
None == [k |-> "none"]
Num(n) == [k |-> "num", n |-> n]
Str(s) == [k |-> "str", s |-> s]
List(xs) == [k |-> "list", xs |-> xs]
Dict(d) == [k |-> "dict", d |-> d]

EmptyDict == Dict(<<>>)

\* bool(v): None, 0, "", [] and {} are falsy
Truthy(v) ==
  CASE v.k = "none" -> FALSE
    [] v.k = "num" -> v.n # 0
    [] v.k = "str" -> v.s # <<>>
    [] v.k = "list" -> v.xs # <<>>
    [] v.k = "dict" -> DOMAIN v.d # {}

\* a or b
Or(a, b) == IF Truthy(a) THEN a ELSE b

\* d.get(key) of a dict d
Get(v, key) == IF key \in DOMAIN v.d THEN v.d[key] ELSE None

IsSpace(c) == c \in {" ", "\n"}

RECURSIVE LStrip(_)
LStrip(s) == IF s # <<>> /\ IsSpace(Head(s)) THEN LStrip(Tail(s)) ELSE s

RECURSIVE RStrip(_)
RStrip(s) ==
  IF s # <<>> /\ IsSpace(s[Len(s)]) THEN RStrip(SubSeq(s, 1, Len(s) - 1)) ELSE s

\* str.strip()
Strip(s) == RStrip(LStrip(s))

\* the slice left out
Take_All(s, n) == s

\* s[:n]
Take(s, n) == SubSeq(s, 1, IF Len(s) < n THEN Len(s) ELSE n)

DigitChar == <<"0", "1", "2", "3", "4", "5", "6", "7", "8", "9">>

\* str(n) for the one-digit numbers the model uses
Digits(n) == <<DigitChar[n + 1]>>

\* str(v); the repr of a list or dict is abbreviated to its brackets
PyStr(v) ==
  CASE v.k = "none" -> <<"N", "o", "n", "e">>
    [] v.k = "num" -> Digits(v.n)
    [] v.k = "str" -> v.s
    [] v.k = "list" -> <<"[", "]">>
    [] v.k = "dict" -> <<"{", "}">>

\* a Python list of str as a tagged value
StrList(ss) == List([i \in 1..Len(ss) |-> Str(ss[i])])

\* {"title": t, "bullets": bs}
Box(t, bs) == Dict([title |-> Str(t), bullets |-> StrList(bs)])

\* ------------------------------------------------------------------------
\* Literals of the normalisers
\* ------------------------------------------------------------------------
\* "关键方法与技术路线", "数据/实验与验证", "阶段产出与指标"
StageDefaultBullets ==
  << <<"guan", "jian", "fang", "fa", "yu", "ji", "shu", "lu", "xian">>,
     <<"shu", "ju", "/", "shi", "yan", "yu", "yan", "zheng">>,
     <<"jie", "duan", "chan", "chu", "yu", "zhi", "biao">> >>

\* the three-stage skeleton: 任务拆解, 方法实现, 集成评估
DefaultStages ==
  << Box(<<"ren", "wu", "chai", "jie">>,
         << <<"ming", "que", "mu", "biao", "yu", "zhi", "biao">>,
            <<"shu", "li", "guan", "jian", "wen", "ti">>,
            <<"fen", "jie", "ren", "wu", "bao">> >>),
     Box(<<"fang", "fa", "shi", "xian">>,
         << <<"he", "xin", "fang", "fa", "she", "ji">>,
            <<"guan", "jian", "ji", "shu", "shi", "xian">>,
            <<"shi", "yan", "/", "fang", "zhen", "yan", "zheng">> >>),
     Box(<<"ji", "cheng", "ping", "gu">>,
         << <<"xi", "tong", "ji", "cheng", "yu", "you", "hua">>,
            <<"dui", "biao", "ping", "gu", "yu", "die", "dai">>,
            <<"xing", "cheng", "cheng", "guo", "shu", "chu">> >>) >>

\* f"阶段 {n}"
StageAutoTitle(n) == <<"jie", "duan", " ">> \o Digits(n)

\* "研究内容与任务", "关键方法与实验", "阶段成果与指标"
WpDefaultBullets ==
  << <<"yan", "jiu", "nei", "rong", "yu", "ren", "wu">>,
     <<"guan", "jian", "fang", "fa", "yu", "shi", "yan">>,
     <<"jie", "duan", "cheng", "guo", "yu", "zhi", "biao">> >>

\* f"WP{n}"
WpAutoTitle(n) == <<"W", "P">> \o Digits(n)

\* f"WP{idx} 研究内容"
WpPadTitle(idx) == <<"W", "P">> \o Digits(idx) \o <<" ", "yan", "jiu", "nei", "rong">>

GoalDefaultTitle == <<"yan", "jiu", "mu", "biao">>
GoalDefaultBullets ==
  << <<"ning", "lian", "he", "xin", "mu", "biao">>,
     <<"ming", "que", "chuang", "xin", "dian">>,
     <<"liang", "hua", "kao", "he", "zhi", "biao">> >>
HypDefaultTitle == <<"ke", "xue", "wen", "ti", "/", "jia", "she">>
HypDefaultBullets ==
  << <<"ti", "chu", "guan", "jian", "ke", "xue", "wen", "ti">>,
     <<"gei", "chu", "ke", "jian", "yan", "jia", "she">>,
     <<"ding", "yi", "yan", "zheng", "lu", "jing">> >>
SupDefaultTitle == <<"zhi", "cheng", "tiao", "jian">>
SupDefaultBullets ==
  << <<"yan", "jiu", "ji", "chu", "yu", "tuan", "dui">>,
     <<"shu", "ju", "/", "ping", "tai", "/", "she", "bei">>,
     <<"he", "zuo", "yu", "zi", "yuan", "bao", "zhang">> >>
OutDefaultTitle == <<"yu", "qi", "cheng", "guo">>
OutDefaultBullets ==
  << <<"lun", "wen", "/", "zhuan", "li", "/", "biao", "zhun">>,
     <<"yuan", "xing", "/", "xi", "tong", "/", "ping", "tai">>,
     <<"shu", "ju", "ji", "/", "kai", "yuan", "gong", "ju">> >>

\* ------------------------------------------------------------------------
\* _normalize_list
\* ------------------------------------------------------------------------
RECURSIVE ListItems(_)
\* [str(x).strip() for x in value if x is not None and str(x).strip()]
ListItems(xs) ==
  IF xs = <<>> THEN <<>>
  ELSE LET x == Head(xs)
           t == Strip(PyStr(x))
       IN IF x.k # "none" /\ t # <<>>
          THEN <<t>> \o ListItems(Tail(xs))
          ELSE ListItems(Tail(xs))

_normalize_list(value, limit, default) ==
  IF value.k = "list" THEN Take(ListItems(value.xs), limit)
  ELSE IF value.k = "str" /\ Strip(value.s) # <<>> THEN Take(<<Strip(value.s)>>, limit)
  ELSE Take(default, limit)

\* the list object returned, were a list argument handed back as it is
_normalize_list_origin_NoCopy(value, default) ==
  IF value.k = "list" THEN "argument" ELSE "fresh"

\* where the list object _normalize_list returns was made: every return
\* statement slices ("items[:limit]", "[value.strip()][:limit]",
\* "(default or [])[:limit]"), and a slice is a list made by this call
_normalize_list_origin(value, default) ==
  IF value.k = "list" THEN "fresh"
  ELSE IF value.k = "str" /\ Strip(value.s) # <<>> THEN "fresh"
  ELSE "fresh"

\* the bullets argument shared by every box: bullets / items / lines
BulletsOf(b) == Or(Or(Get(b, "bullets"), Get(b, "items")), Get(b, "lines"))

\* ------------------------------------------------------------------------
\* _normalize_technical_route_spec
\* ------------------------------------------------------------------------
\* the list of the previous call reused instead of a fresh one
NormStagesInit_Stale ==
  IF norm_spec.k = "dict" /\ "stages" \in DOMAIN norm_spec.d THEN norm_spec.d.stages.xs ELSE <<>>

\* norm_stages at loop entry
NormStagesInit == <<>>

RECURSIVE StagesLoop_NoCap(_, _, _)
\* the stage loop with its break at 6 kept stages left out
StagesLoop_NoCap(stages, i, norm) ==
  IF i > Len(stages) THEN norm
  ELSE LET s == stages[i] IN
    IF s.k # "dict" THEN StagesLoop_NoCap(stages, i + 1, norm)
    ELSE LET st_title == Strip(PyStr(Or(Or(Get(s, "title"), Get(s, "name")), Str(<<>>))))
             bullets == _normalize_list(BulletsOf(s), BulletLimit, <<>>)
         IN IF st_title = <<>> /\ bullets = <<>> THEN StagesLoop_NoCap(stages, i + 1, norm)
            ELSE LET t2 == IF st_title = <<>> THEN StageAutoTitle(Len(norm) + 1) ELSE st_title
                     b2 == IF bullets = <<>> THEN StageDefaultBullets ELSE bullets
                 IN StagesLoop_NoCap(stages, i + 1,
                                     Append(norm, Box(Take(t2, StageTitleCap), b2)))

RECURSIVE StagesLoop(_, _, _)
StagesLoop(stages, i, norm) ==
  IF i > Len(stages) THEN norm
  ELSE LET s == stages[i] IN
    IF s.k # "dict" THEN StagesLoop(stages, i + 1, norm)
    ELSE LET st_title == Strip(PyStr(Or(Or(Get(s, "title"), Get(s, "name")), Str(<<>>))))
             bullets == _normalize_list(BulletsOf(s), BulletLimit, <<>>)
         IN IF st_title = <<>> /\ bullets = <<>> THEN StagesLoop(stages, i + 1, norm)
            ELSE LET t2 == IF st_title = <<>> THEN StageAutoTitle(Len(norm) + 1) ELSE st_title
                     b2 == IF bullets = <<>> THEN StageDefaultBullets ELSE bullets
                     norm2 == Append(norm, Box(Take(t2, StageTitleCap), b2))
                 IN IF Len(norm2) >= StageMax THEN norm2
                    ELSE StagesLoop(stages, i + 1, norm2)

\* the list the stage loop iterates over
StagesOf(spec) ==
  LET stages == Or(Or(Get(spec, "stages"), Get(spec, "steps")), List(<<>>))
  IN IF stages.k = "list" THEN stages.xs ELSE <<>>

\* the skeleton replacement left out
PadStages_Keep(norm) == norm

\* the skeleton used only to fill the places the supplied stages leave free
PadStages_Fill(norm) ==
  IF Len(norm) < StageMin
  THEN norm \o SubSeq(DefaultStages, Len(norm) + 1, StageMin)
  ELSE norm

\* if len(norm_stages) < 3: norm_stages = [the skeleton]
PadStages(norm) == IF Len(norm) < StageMin THEN DefaultStages ELSE norm

_normalize_technical_route_spec(spec, title) ==
  Dict([title |-> title,
        stages |-> List(PadStages(StagesLoop(StagesOf(spec), 1, NormStagesInit)))])

\* ------------------------------------------------------------------------
\* _normalize_research_framework_spec
\* ------------------------------------------------------------------------
_box(spec, key, default_title, default_bullets) ==
  LET raw0 == Or(Get(spec, key), EmptyDict)
      raw == IF raw0.k = "dict" THEN raw0 ELSE EmptyDict
      t0 == Strip(PyStr(Or(Get(raw, "title"), Str(default_title))))
      box_title == IF t0 # <<>> THEN t0 ELSE default_title
      bullets == _normalize_list(BulletsOf(raw), BulletLimit, default_bullets)
  IN Box(Take(box_title, BoxTitleCap), bullets)

RECURSIVE WpLoop(_, _, _)
WpLoop(wps, i, norm) ==
  IF i > Len(wps) THEN norm
  ELSE LET w == wps[i] IN
    IF w.k # "dict" THEN WpLoop(wps, i + 1, norm)
    ELSE LET wt == Strip(PyStr(Or(Or(Get(w, "title"), Get(w, "name")), Str(<<>>))))
             bullets == _normalize_list(BulletsOf(w), BulletLimit, <<>>)
         IN IF wt = <<>> /\ bullets = <<>> THEN WpLoop(wps, i + 1, norm)
            ELSE LET t2 == IF wt = <<>> THEN WpAutoTitle(Len(norm) + 1) ELSE wt
                     b2 == IF bullets = <<>> THEN WpDefaultBullets ELSE bullets
                     norm2 == Append(norm, Box(Take(t2, BoxTitleCap), b2))
                 IN IF Len(norm2) >= WpTotal THEN norm2
                    ELSE WpLoop(wps, i + 1, norm2)

\* the padding loop left out
PadWps_None(norm) == norm

RECURSIVE PadWps(_)
\* while len(norm_wps) < 3: append the WP{idx} default box
PadWps(norm) ==
  IF Len(norm) < WpTotal
  THEN PadWps(Append(norm, Box(WpPadTitle(Len(norm) + 1), WpDefaultBullets)))
  ELSE norm

WpsOf(spec) ==
  LET wps == Or(Or(Or(Get(spec, "work_packages"), Get(spec, "modules")),
                   Get(spec, "wps")), List(<<>>))
  IN IF wps.k = "list" THEN wps.xs ELSE <<>>

_normalize_research_framework_spec(spec, title) ==
  Dict([title |-> title,
        goal |-> _box(spec, "goal", GoalDefaultTitle, GoalDefaultBullets),
        hypotheses |-> _box(spec, "hypotheses", HypDefaultTitle, HypDefaultBullets),
        support |-> _box(spec, "support", SupDefaultTitle, SupDefaultBullets),
        work_packages |-> List(PadWps(WpLoop(WpsOf(spec), 1, <<>>))),
        outcomes |-> _box(spec, "outcomes", OutDefaultTitle, OutDefaultBullets)])

\* ------------------------------------------------------------------------
\* Fonts and text measurement
\* ------------------------------------------------------------------------
\* candidates of _pick_font_paths, in order: <<kind, path>>
FontCandidates ==
  << <<"regular", "msyh.ttc">>, <<"bold", "msyhbd.ttc">>,
     <<"regular", "simsun.ttc">>, <<"bold", "simhei.ttf">>,
     <<"regular", "DejaVuSans.ttf">>, <<"bold", "DejaVuSans-Bold.ttf">> >>

RECURSIVE PickLoop(_, _, _)
PickLoop(exists, i, found) ==
  IF i > Len(FontCandidates) THEN found
  ELSE LET kind == FontCandidates[i][1]
           path == FontCandidates[i][2]
       IN IF found[kind] # "" THEN PickLoop(exists, i + 1, found)
          ELSE IF path \in exists
               THEN PickLoop(exists, i + 1, [found EXCEPT ![kind] = path])
               ELSE PickLoop(exists, i + 1, found)

\* the dict found, "" standing for an absent key; exists = the paths for
\* which os.path.exists holds
_pick_font_paths(exists) == PickLoop(exists, 1, [regular |-> "", bold |-> ""])

\* _tt(path, size): the truetype face when a path was found, else load_default()
_tt(path, size) == [face |-> IF path # "" THEN path ELSE "default", size |-> size]

_load_fonts(exists) ==
  LET paths == _pick_font_paths(exists)
      regular_path == paths.regular
      bold_path == IF paths.bold # "" THEN paths.bold ELSE paths.regular
  IN [title |-> _tt(bold_path, 44), header |-> _tt(bold_path, 26),
      body |-> _tt(regular_path, 22), body_small |-> _tt(regular_path, 20),
      bold |-> _tt(bold_path, 22)]

\* one-column characters; every other character of the model is a CJK one
NarrowChars ==
  {"a", "b", " ", "/", "[", "]", "{", "}", "N", "o", "n", "e", "W", "P",
   "&", "<", ">", "\"", "'", ";", "m", "p", "l", "t", "g", "q", "u", "s", "bullet"}
     \cup {DigitChar[i] : i \in 1..10}

\* advance width of one character, in pixels.  Pillow's built-in face is a
\* fixed 6 px bitmap; a CJK face draws a CJK character one em wide and a
\* narrow one half an em; DejaVu has no CJK glyph and draws its .notdef box,
\* and its bullet glyph (advance 1208 of 2048 units) is wider than its
\* other narrow characters.
CharWidth(font, c) ==
  IF font.face = "default" THEN 6
  ELSE IF c = "\n" THEN 0
  ELSE IF c = "bullet" /\ font.face \in {"DejaVuSans.ttf", "DejaVuSans-Bold.ttf"}
  THEN (font.size * 3) \div 5
  ELSE IF c \in NarrowChars THEN font.size \div 2
  ELSE IF font.face \in {"DejaVuSans.ttf", "DejaVuSans-Bold.ttf"} THEN (font.size * 3) \div 5
  ELSE font.size

RECURSIVE _text_width(_, _)
_text_width(text, font) ==
  IF text = <<>> THEN 0 ELSE CharWidth(font, Head(text)) + _text_width(Tail(text), font)

\* height of the bounding box textbbox returns for a one-line text
TextHeight(font) == IF font.face = "default" THEN 11 ELSE (font.size * 4) \div 5

\* ------------------------------------------------------------------------
\* _wrap_text / _wrap_bullet
\* ------------------------------------------------------------------------
RECURSIVE WrapLoop_Strict(_, _, _, _, _, _)
\* the loop closing a line as soon as it reaches the budget
WrapLoop_Strict(s, i, current, lines, font, max_width) ==
  IF i > Len(s)
  THEN IF current # <<>> THEN Append(lines, current) ELSE lines
  ELSE LET ch == s[i]
           trial == Append(current, ch)
       IN IF ch = "\n"
          THEN WrapLoop_Strict(s, i + 1, <<>>,
                        IF current # <<>> THEN Append(lines, current) ELSE lines,
                        font, max_width)
          ELSE IF current = <<>>
          THEN WrapLoop_Strict(s, i + 1, <<ch>>, lines, font, max_width)
          ELSE IF _text_width(trial, font) < max_width
          THEN WrapLoop_Strict(s, i + 1, trial, lines, font, max_width)
          ELSE WrapLoop_Strict(s, i + 1, <<ch>>, Append(lines, current), font, max_width)

RECURSIVE WrapLoop(_, _, _, _, _, _)
WrapLoop(s, i, current, lines, font, max_width) ==
  IF i > Len(s)
  THEN IF current # <<>> THEN Append(lines, current) ELSE lines
  ELSE LET ch == s[i]
           trial == Append(current, ch)
       IN IF ch = "\n"
          THEN WrapLoop(s, i + 1, <<>>,
                        IF current # <<>> THEN Append(lines, current) ELSE lines,
                        font, max_width)
          ELSE IF current = <<>>
          THEN WrapLoop(s, i + 1, <<ch>>, lines, font, max_width)
          ELSE IF _text_width(trial, font) <= max_width
          THEN WrapLoop(s, i + 1, trial, lines, font, max_width)
          ELSE WrapLoop(s, i + 1, <<ch>>, Append(lines, current), font, max_width)

\* the wrapper without its strip
_wrap_text_NoStrip(text, font, max_width) ==
  IF text = <<>> THEN <<>> ELSE WrapLoop(text, 1, <<>>, <<>>, font, max_width)

_wrap_text(text, font, max_width) ==
  LET s == Strip(text)
  IN IF s = <<>> THEN <<>> ELSE WrapLoop(s, 1, <<>>, <<>>, font, max_width)

\* the default marker "• "
BulletPrefix == <<"bullet", " ">>

\* " " * n
Spaces(n) == [i \in 1..n |-> " "]

_wrap_bullet(text, font, max_width) ==
  LET raw == Strip(text)
      prefix_w == _text_width(BulletPrefix, font)
      inner == IF max_width - prefix_w > 1 THEN max_width - prefix_w ELSE 1
      Indent(wrapped) ==
        IF wrapped = <<>> THEN <<>>
        ELSE [i \in 1..Len(wrapped) |->
                IF i = 1 THEN BulletPrefix \o wrapped[1]
                ELSE Spaces(Len(BulletPrefix)) \o wrapped[i]]
  IN IF raw = <<>> THEN <<>> ELSE Indent(_wrap_text(raw, font, inner))

\* ------------------------------------------------------------------------
\* _escape_xml
\* ------------------------------------------------------------------------
RECURSIVE Replace(_, _, _)
\* text.replace(ch, repl) for a one-character ch
Replace(text, ch, repl) ==
  IF text = <<>> THEN <<>>
  ELSE (IF Head(text) = ch THEN repl ELSE <<Head(text)>>) \o Replace(Tail(text), ch, repl)

\* the ampersand replaced last instead of first
_escape_xml_AmpLast(text) ==
  Replace(Replace(Replace(Replace(Replace(text,
    "<", <<"&", "l", "t", ";">>),
    ">", <<"&", "g", "t", ";">>),
    "\"", <<"&", "q", "u", "o", "t", ";">>),
    "'", <<"&", "a", "p", "o", "s", ";">>),
    "&", <<"&", "a", "m", "p", ";">>)

_escape_xml(text) ==
  Replace(Replace(Replace(Replace(Replace(text,
    "&", <<"&", "a", "m", "p", ";">>),
    "<", <<"&", "l", "t", ";">>),
    ">", <<"&", "g", "t", ";">>),
    "\"", <<"&", "q", "u", "o", "t", ";">>),
    "'", <<"&", "a", "p", "o", "s", ";">>)

\* _hex_to_rgba(hex_color, alpha), the colour kept as its hex text
_hex_to_rgba(hex, alpha) == [hex |-> hex, alpha |-> alpha]

NoColor == [hex |-> "none", alpha |-> 0]

\* ------------------------------------------------------------------------
\* Drawing primitives: the raster is the canvas size and the ordered draw
\* calls made on it, the vector document the ordered markup elements
\* ------------------------------------------------------------------------
\* _rounded_rect_png(draw, xy, radius, fill, outline, width)
_rounded_rect_png(x0, y0, x1, y1, radius, fill, outline, lw) ==
  [op |-> "rrect", x0 |-> x0, y0 |-> y0, x1 |-> x1, y1 |-> y1,
   radius |-> radius, fill |-> fill, outline |-> outline, lw |-> lw]

\* draw.text(xy, text, font, fill)
DrawText(x, y, text, font, fill) ==
  [op |-> "text", x |-> x, y |-> y, text |-> text, font |-> font, fill |-> fill]

\* _arrow_png: the line and the filled head at (x2, y2)
_arrow_png(x1, y1, x2, y2, color, lw) ==
  [op |-> "arrow", x1 |-> x1, y1 |-> y1, x2 |-> x2, y2 |-> y2,
   color |-> color, lw |-> lw]

\* _arrow_svg: <line ... marker-end="url(#arrow)"/>
_arrow_svg(x1, y1, x2, y2, stroke, stroke_width) ==
  [el |-> "line", x1 |-> x1, y1 |-> y1, x2 |-> x2, y2 |-> y2,
   stroke |-> stroke, sw |-> stroke_width]

\* <rect x y rx ry width height fill stroke stroke-width opacity/>
SvgRect(x, y, rx, w, h, fill, stroke, sw, opacity) ==
  [el |-> "rect", x |-> x, y |-> y, rx |-> rx, w |-> w, h |-> h,
   fill |-> fill, stroke |-> stroke, sw |-> sw, opacity |-> opacity]

\* <text x y text-anchor font-size font-weight fill>content</text>
SvgText(x, y, anchor, size, weight, fill, content) ==
  [el |-> "text", x |-> x, y |-> y, anchor |-> anchor, size |-> size,
   weight |-> weight, fill |-> fill, content |-> content]

\* <svg width height viewBox>, <defs> with the arrow marker, background rect
SvgHead(width, height, arrow, bg) ==
  << [el |-> "svg", w |-> width, h |-> height],
     [el |-> "marker", fill |-> arrow],
     SvgRect(0, 0, 0, width, height, bg, "none", 0, "1") >>

SvgClose == [el |-> "/svg"]

RECURSIVE Flatten(_)
\* concatenation of a sequence of sequences
Flatten(ss) == IF ss = <<>> THEN <<>> ELSE Head(ss) \o Flatten(Tail(ss))

\* max taken as its first argument
Max_First(a, b) == a

Max(a, b) == IF a > b THEN a ELSE b
Min(a, b) == IF a < b THEN a ELSE b

\* the list a box's "bullets" key holds (a list whenever the box came out of
\* a normaliser)
BulletItems(box) ==
  LET b == Or(Get(box, "bullets"), List(<<>>))
  IN IF b.k = "list" THEN b.xs ELSE <<>>

\* for b in bullets: lines.extend(_wrap_bullet(d, str(b), font, max_w))
BodyLines(box, font, max_w) ==
  LET bs == BulletItems(box)
  IN Flatten([i \in 1..Len(bs) |-> _wrap_bullet(PyStr(bs[i]), font, max_w)])

\* ------------------------------------------------------------------------
\* _render_technical_route
\* ------------------------------------------------------------------------
Width == 1600
TrMarginX == 88
TrTop == 80
TrGap == 26
TrArrowGap == 18
\* the boxes as wide as the canvas
TrBoxW_Full == Width

TrBoxW == Width - TrMarginX * 2
TrPad == 34
TrHeaderH == 56
Radius == 22
LineH == 30
TrFloor == 900

TrBg == "#F8FAFC"
TrText == "#0F172A"
TrMuted == "#334155"
TrBorder == "#CBD5E1"
TrArrow == "#64748B"
TrAccent == "#F97316"
TrStageFills == <<"#FFF7ED", "#ECFDF5", "#EFF6FF", "#FDF2F8", "#F5F3FF", "#F0FDFA">>
TrStageStrokes == <<"#FDBA74", "#6EE7B7", "#93C5FD", "#F9A8D4", "#C4B5FD", "#5EEAD4">>

\* "技术路线图"
TrDefaultTitle == <<"ji", "shu", "lu", "xian", "tu">>

\* str(spec.get("title") or default).strip() or default
TitleOf(spec, default) ==
  LET t == Strip(PyStr(Or(Get(spec, "title"), Str(default))))
  IN IF t # <<>> THEN t ELSE default

RECURSIVE TrStageLoop(_, _, _, _, _)
\* the measure-and-layout loop; i is the 1-based position of the stage
TrStageLoop(stages, i, y, fonts, acc) ==
  IF i > Len(stages) THEN [boxes |-> acc, y |-> y]
  ELSE LET st == stages[i]
           st_title == TitleOf(st, StageAutoTitle(i))
           \* if not body_lines: the first default bullet, wrapped
           OrDefault(lines0) ==
             IF lines0 # <<>> THEN lines0
             ELSE _wrap_bullet(StageDefaultBullets[1], fonts.body, TrBoxW - TrPad * 2)
           Place(body_lines) ==
             LET body_h == Len(body_lines) * LineH + 10
                 box_h == TrHeaderH + body_h + 18
                 entry == [x |-> TrMarginX, y |-> y, w |-> TrBoxW, h |-> box_h,
                           title |-> st_title, lines |-> body_lines,
                           fill |-> TrStageFills[((i - 1) % Len(TrStageFills)) + 1],
                           stroke |-> TrStageStrokes[((i - 1) % Len(TrStageStrokes)) + 1]]
             IN TrStageLoop(stages, i + 1, y + box_h + TrGap + TrArrowGap, fonts,
                            Append(acc, entry))
       IN Place(OrDefault(BodyLines(st, fonts.body, TrBoxW - TrPad * 2)))

\* spec.get("stages") or []
TrStages(spec) ==
  LET v == Or(Get(spec, "stages"), List(<<>>))
  IN IF v.k = "list" THEN v.xs ELSE <<>>

\* the canvas height taken from the layout alone, without its floor
TrLayout_NoFloor(spec, fonts) ==
  LET Sized(r) == [boxes |-> r.boxes, height |-> r.y + 70]
  IN Sized(TrStageLoop(TrStages(spec), 1, TrTop + 70, fonts, <<>>))

\* stage_layout and the canvas height
TrLayout(spec, fonts) ==
  LET Sized(r) == [boxes |-> r.boxes, height |-> Max(TrFloor, r.y + 70)]
  IN Sized(TrStageLoop(TrStages(spec), 1, TrTop + 70, fonts, <<>>))

\* the draw calls of one stage, idx its 1-based position
TrStagePng(st, idx, fonts) ==
  LET x == st.x
      y0 == st.y
      w == st.w
      h == st.h
      num == Digits(idx)
      pill_x == x + TrPad - 6
      pill_y == y0 + 14
      nw == _text_width(num, fonts.bold)
      nh == TextHeight(fonts.bold)
  IN << _rounded_rect_png(x + 3, y0 + 5, x + w + 3, y0 + h + 5, Radius,
                          _hex_to_rgba("#0F172A", 22), NoColor, 0),
        _rounded_rect_png(x, y0, x + w, y0 + h, Radius,
                          _hex_to_rgba(st.fill, 255), _hex_to_rgba(st.stroke, 255), 2),
        _rounded_rect_png(x, y0, x + 10, y0 + h, Radius,
                          _hex_to_rgba(TrAccent, 190), NoColor, 0),
        _rounded_rect_png(pill_x, pill_y, pill_x + 46, pill_y + 30, 14,
                          _hex_to_rgba("#FFFFFF", 235), _hex_to_rgba("#CBD5E1", 255), 1),
        DrawText(pill_x + (46 - nw) \div 2, pill_y + (30 - nh) \div 2 - 1, num,
                 fonts.bold, _hex_to_rgba(TrMuted, 255)),
        DrawText(x + TrPad + 52, y0 + 14, st.title, fonts.header,
                 _hex_to_rgba(TrText, 255)) >>
     \o [j \in 1..Len(st.lines) |->
           DrawText(x + TrPad, y0 + TrHeaderH + 10 + (j - 1) * LineH, st.lines[j],
                    fonts.body, _hex_to_rgba(TrMuted, 255))]

\* the loop bound one short
TrArrowsPng_Short(boxes) ==
  [a \in 1..(Len(boxes) - 2) |->
     _arrow_png(boxes[a].x + boxes[a].w \div 2, boxes[a].y + boxes[a].h + 8,
                boxes[a + 1].x + boxes[a + 1].w \div 2, boxes[a + 1].y - 8,
                _hex_to_rgba(TrArrow, 255), 4)]

\* "arrows between stages" of the PNG: for a in range(len(stage_layout) - 1)
TrArrowsPng(boxes) ==
  [a \in 1..(Len(boxes) - 1) |->
     _arrow_png(boxes[a].x + boxes[a].w \div 2, boxes[a].y + boxes[a].h + 8,
                boxes[a + 1].x + boxes[a + 1].w \div 2, boxes[a + 1].y - 8,
                _hex_to_rgba(TrArrow, 255), 4)]

\* the SVG arrow loop with its bound one short
TrArrowsSvg_Short(boxes) ==
  [a \in 1..(Len(boxes) - 2) |->
     _arrow_svg(boxes[a].x + boxes[a].w \div 2, boxes[a].y + boxes[a].h + 8,
                boxes[a + 1].x + boxes[a + 1].w \div 2, boxes[a + 1].y - 8,
                TrArrow, 4)]

\* the arrows of the SVG
TrArrowsSvg(boxes) ==
  [a \in 1..(Len(boxes) - 1) |->
     _arrow_svg(boxes[a].x + boxes[a].w \div 2, boxes[a].y + boxes[a].h + 8,
                boxes[a + 1].x + boxes[a + 1].w \div 2, boxes[a + 1].y - 8,
                TrArrow, 4)]

TrPng(title, layout, fonts) ==
  LET title_w == _text_width(title, fonts.title)
  IN [w |-> Width, h |-> layout.height, bg |-> _hex_to_rgba(TrBg, 255),
      ops |-> <<DrawText((Width - title_w) \div 2, TrTop - 10, title, fonts.title,
                         _hex_to_rgba(TrText, 255))>>
              \o Flatten([i \in 1..Len(layout.boxes) |->
                            TrStagePng(layout.boxes[i], i, fonts)])
              \o TrArrowsPng(layout.boxes)]

\* the markup elements of one stage
TrStageSvg(st, idx) ==
  LET x == st.x
      y0 == st.y
      pill_x == x + TrPad - 6
      pill_y == y0 + 14
  IN << SvgRect(x, y0, Radius, st.w, st.h, st.fill, st.stroke, 2, "1"),
        SvgRect(x, y0, Radius, 10, st.h, TrAccent, "none", 0, "0.75"),
        SvgRect(pill_x, pill_y, 14, 46, 30, "#FFFFFF", TrBorder, 1, "0.92"),
        SvgText(pill_x + 23, pill_y + 22, "middle", 20, 700, TrMuted, Digits(idx)),
        SvgText(x + TrPad + 52, y0 + 38, "start", 26, 700, TrText,
                _escape_xml(st.title)) >>
     \o [j \in 1..Len(st.lines) |->
           SvgText(x + TrPad, y0 + TrHeaderH + 10 + 22 + (j - 1) * LineH, "start",
                   22, 400, TrMuted, _escape_xml(st.lines[j]))]

TrSvg(title, layout) ==
  SvgHead(Width, layout.height, TrArrow, TrBg)
  \o <<SvgText(Width \div 2, TrTop + 28, "middle", 44, 700, TrText, _escape_xml(title))>>
  \o Flatten([i \in 1..Len(layout.boxes) |-> TrStageSvg(layout.boxes[i], i)])
  \o TrArrowsSvg(layout.boxes)
  \o <<SvgClose>>

\* (png_bytes, svg_text) of _render_technical_route, after its Pillow check
_render_technical_route(spec, exists) ==
  LET Emit(title, layout, fonts) ==
        [png |-> TrPng(title, layout, fonts), svg |-> TrSvg(title, layout)]
      Draw(fonts) == Emit(TitleOf(spec, TrDefaultTitle), TrLayout(spec, fonts), fonts)
  IN Draw(_load_fonts(exists))

\* ------------------------------------------------------------------------
\* _render_research_framework
\* ------------------------------------------------------------------------
RfMargin == 88
RfGap == 26
RfTop == 80
RfPad == 28
RfHeaderH == 54
RfFloor == 980
RfInnerW == Width - RfMargin * 2
RfWpMax == 3

RfGoalFill == "#FFF7ED"
RfGoalStroke == "#FDBA74"
RfRowFill == "#FFFFFF"
RfOutFill == "#F0FDFA"
RfOutStroke == "#5EEAD4"
RfWpFills == <<"#ECFDF5", "#EFF6FF", "#F5F3FF">>
RfWpStrokes == <<"#6EE7B7", "#93C5FD", "#C4B5FD">>

\* "研究框架图"
RfDefaultTitle == <<"yan", "jiu", "kuang", "jia", "tu">>

\* "（内容依据已知需求自动生成）"
RfFillerLine ==
  <<"(", "nei", "rong", "yi", "ju", "yi", "zhi", "xu", "qiu", "zi", "dong",
    "sheng", "cheng", ")">>

\* _box_height counting at most three body lines
_box_height_Capped(box, max_w, fonts) ==
  LET OrFiller(lines0) ==
        IF lines0 # <<>> THEN lines0
        ELSE _wrap_bullet(RfFillerLine, fonts.body, max_w - RfPad * 2)
      Sized(lines) ==
        LET body_h == Min(Len(lines), 3) * LineH + 10
        IN [h |-> RfHeaderH + body_h + 18, lines |-> lines]
  IN Sized(OrFiller(BodyLines(box, fonts.body, max_w - RfPad * 2)))

\* _box_height(box, max_w) -> (height, lines)
_box_height(box, max_w, fonts) ==
  LET OrFiller(lines0) ==
        IF lines0 # <<>> THEN lines0
        ELSE _wrap_bullet(RfFillerLine, fonts.body, max_w - RfPad * 2)
      Sized(lines) ==
        LET body_h == Len(lines) * LineH + 10
        IN [h |-> RfHeaderH + body_h + 18, lines |-> lines]
  IN Sized(OrFiller(BodyLines(box, fonts.body, max_w - RfPad * 2)))

\* spec.get(key) or {}
RfPart(spec, key) ==
  LET v == Or(Get(spec, key), EmptyDict) IN IF v.k = "dict" THEN v ELSE EmptyDict

\* spec.get("work_packages") or []
RfWps(spec) ==
  LET v == Or(Get(spec, "work_packages"), List(<<>>))
  IN IF v.k = "list" THEN v.xs ELSE <<>>

\* wp_count = min(3, len(wps)) if wps else 3
WpCount(wps) == IF wps # <<>> THEN Min(RfWpMax, Len(wps)) ELSE RfWpMax

\* box.get("title") or default, as drawn by str(box["title"])
RfTitle(box, default) == PyStr(Or(Get(box, "title"), Str(default)))

\* the five rows of boxes and the canvas height
RfLayout(spec, fonts) ==
  LET goal == RfPart(spec, "goal")
      hypotheses == RfPart(spec, "hypotheses")
      support == RfPart(spec, "support")
      outcomes == RfPart(spec, "outcomes")
      wps == RfWps(spec)
      col_w == (RfInnerW - RfGap) \div 2
      wp_count == WpCount(wps)
      wp_w == (RfInnerW - RfGap * 2) \div 3
      wp_src == [i \in 1..wp_count |->
                   IF i <= Len(wps) THEN wps[i]
                   ELSE Box(WpPadTitle(i), WpDefaultBullets)]
      \* the rows, from the measured (height, lines) of every box
      Rows(g, hy, su, wp_hl, o) ==
        LET y1 == RfTop + 70
            y2 == y1 + g.h + RfGap + 10
            row_h == Max(hy.h, su.h)
            y3 == y2 + row_h + RfGap + 10
            own_h == [i \in 1..wp_count |-> wp_hl[i].h]
            wp_max_h == IF wp_count = 0 THEN 0
                        ELSE CHOOSE m \in {wp_hl[i].h : i \in 1..wp_count} :
                               \A i \in 1..wp_count : wp_hl[i].h <= m
            y4 == y3 + wp_max_h + RfGap + 10
            y5 == y4 + o.h + 70
        IN [goal |-> [x |-> RfMargin, y |-> y1, w |-> RfInnerW, h |-> g.h,
                      fill |-> RfGoalFill, stroke |-> RfGoalStroke,
                      title |-> RfTitle(goal, GoalDefaultTitle), lines |-> g.lines],
            hyp |-> [x |-> RfMargin, y |-> y2, w |-> col_w, h |-> row_h,
                     fill |-> RfRowFill, stroke |-> TrBorder,
                     title |-> RfTitle(hypotheses, HypDefaultTitle),
                     lines |-> hy.lines],
            sup |-> [x |-> RfMargin + col_w + RfGap, y |-> y2, w |-> col_w,
                     h |-> row_h, fill |-> RfRowFill, stroke |-> TrBorder,
                     title |-> RfTitle(support, SupDefaultTitle), lines |-> su.lines],
            wps |-> [i \in 1..wp_count |->
                       [x |-> RfMargin + (i - 1) * (wp_w + RfGap), y |-> y3,
                        w |-> wp_w, h |-> wp_max_h,
                        fill |-> RfWpFills[((i - 1) % Len(RfWpFills)) + 1],
                        stroke |-> RfWpStrokes[((i - 1) % Len(RfWpStrokes)) + 1],
                        title |-> RfTitle(wp_src[i], WpAutoTitle(i)),
                        lines |-> wp_hl[i].lines]],
            out |-> [x |-> RfMargin, y |-> y4, w |-> RfInnerW, h |-> o.h,
                     fill |-> RfOutFill, stroke |-> RfOutStroke,
                     title |-> RfTitle(outcomes, OutDefaultTitle), lines |-> o.lines],
            own |-> [hyp |-> hy.h, sup |-> su.h, wps |-> own_h],
            height |-> Max(RfFloor, y5)]
  IN Rows(_box_height(goal, RfInnerW, fonts),
          _box_height(hypotheses, col_w, fonts),
          _box_height(support, col_w, fonts),
          [i \in 1..wp_count |-> _box_height(wp_src[i], wp_w, fonts)],
          _box_height(outcomes, RfInnerW, fonts))

\* _draw_box(box, with_stripe)
_draw_box(box, with_stripe, fonts) ==
  << _rounded_rect_png(box.x + 3, box.y + 5, box.x + box.w + 3, box.y + box.h + 5,
                       Radius, _hex_to_rgba("#0F172A", 20), NoColor, 0),
     _rounded_rect_png(box.x, box.y, box.x + box.w, box.y + box.h, Radius,
                       _hex_to_rgba(box.fill, 255), _hex_to_rgba(box.stroke, 255), 2) >>
  \o (IF with_stripe
      THEN <<_rounded_rect_png(box.x, box.y, box.x + 10, box.y + box.h, Radius,
                               _hex_to_rgba(TrAccent, 185), NoColor, 0)>>
      ELSE <<>>)
  \o <<DrawText(box.x + RfPad, box.y + 14, box.title, fonts.header,
                _hex_to_rgba(TrText, 255))>>
  \o [j \in 1..Len(box.lines) |->
        DrawText(box.x + RfPad, box.y + RfHeaderH + 10 + (j - 1) * LineH, box.lines[j],
                 fonts.body, _hex_to_rgba(TrMuted, 255))]

\* _svg_box(box, stripe)
_svg_box(box, stripe) ==
  <<SvgRect(box.x, box.y, Radius, box.w, box.h, box.fill, box.stroke, 2, "1")>>
  \o (IF stripe
      THEN <<SvgRect(box.x, box.y, Radius, 10, box.h, TrAccent, "none", 0, "0.75")>>
      ELSE <<>>)
  \o <<SvgText(box.x + RfPad, box.y + 38, "start", 26, 700, TrText,
               _escape_xml(box.title))>>
  \o [j \in 1..Len(box.lines) |->
        SvgText(box.x + RfPad, box.y + RfHeaderH + 10 + 22 + (j - 1) * LineH, "start",
                22, 400, TrMuted, _escape_xml(box.lines[j]))]

\* x of _center_bottom / _center_top / _cb / _ct: int(box["x"] + box["w"] / 2)
CenterX(box) == box.x + box.w \div 2

\* the connector from the bottom of box a to the top of box b, as the PNG draws it
RfArrowPng(a, b, alpha, lw) ==
  _arrow_png(CenterX(a), a.y + a.h + 6, CenterX(b), b.y - 8,
             _hex_to_rgba(TrArrow, alpha), lw)

\* the SVG connector drawn from edge to edge, without the 6 and 8 px the PNG
\* adds to _center_bottom and takes from _center_top
RfArrowSvg_Edge(a, b, sw) ==
  _arrow_svg(CenterX(a), a.y + a.h, CenterX(b), b.y, TrArrow, sw)

\* the same connector as the SVG emits it: _arrow_svg(*_cb(a), *_ct(b))
RfArrowSvg(a, b, sw) ==
  _arrow_svg(CenterX(a), a.y + a.h + 6, CenterX(b), b.y - 8, TrArrow, sw)

\* "Connectors" of the PNG
RfArrowsPng(L) ==
  << RfArrowPng(L.goal, L.hyp, 255, 4), RfArrowPng(L.goal, L.sup, 255, 4) >>
  \o Flatten([i \in 1..Len(L.wps) |->
                << RfArrowPng(L.hyp, L.wps[i], 220, 3),
                   RfArrowPng(L.sup, L.wps[i], 220, 3) >>])
  \o [i \in 1..Len(L.wps) |-> RfArrowPng(L.wps[i], L.out, 255, 4)]

\* the support fan-out left out of the SVG
RfArrowsSvg_NoSupport(L) ==
  << RfArrowSvg(L.goal, L.hyp, 4), RfArrowSvg(L.goal, L.sup, 4) >>
  \o [i \in 1..Len(L.wps) |-> RfArrowSvg(L.hyp, L.wps[i], 3)]
  \o [i \in 1..Len(L.wps) |-> RfArrowSvg(L.wps[i], L.out, 4)]

\* "arrows in SVG"
RfArrowsSvg(L) ==
  << RfArrowSvg(L.goal, L.hyp, 4), RfArrowSvg(L.goal, L.sup, 4) >>
  \o Flatten([i \in 1..Len(L.wps) |->
                << RfArrowSvg(L.hyp, L.wps[i], 3), RfArrowSvg(L.sup, L.wps[i], 3) >>])
  \o [i \in 1..Len(L.wps) |-> RfArrowSvg(L.wps[i], L.out, 4)]

RfPng(title, L, fonts) ==
  LET title_w == _text_width(title, fonts.title)
  IN [w |-> Width, h |-> L.height, bg |-> _hex_to_rgba(TrBg, 255),
      ops |-> <<DrawText((Width - title_w) \div 2, RfTop - 10, title, fonts.title,
                         _hex_to_rgba(TrText, 255))>>
              \o _draw_box(L.goal, TRUE, fonts)
              \o _draw_box(L.hyp, FALSE, fonts)
              \o _draw_box(L.sup, FALSE, fonts)
              \o Flatten([i \in 1..Len(L.wps) |-> _draw_box(L.wps[i], TRUE, fonts)])
              \o _draw_box(L.out, TRUE, fonts)
              \o RfArrowsPng(L)]

RfSvg(title, L) ==
  SvgHead(Width, L.height, TrArrow, TrBg)
  \o <<SvgText(Width \div 2, RfTop + 28, "middle", 44, 700, TrText, _escape_xml(title))>>
  \o _svg_box(L.goal, TRUE)
  \o _svg_box(L.hyp, FALSE)
  \o _svg_box(L.sup, FALSE)
  \o Flatten([i \in 1..Len(L.wps) |-> _svg_box(L.wps[i], TRUE)])
  \o _svg_box(L.out, TRUE)
  \o RfArrowsSvg(L)
  \o <<SvgClose>>

\* (png_bytes, svg_text) of _render_research_framework, after its Pillow check
_render_research_framework(spec, exists) ==
  LET Emit(title, L, fonts) ==
        [png |-> RfPng(title, L, fonts), svg |-> RfSvg(title, L)]
      Draw(fonts) == Emit(TitleOf(spec, RfDefaultTitle), RfLayout(spec, fonts), fonts)
  IN Draw(_load_fonts(exists))

\* ------------------------------------------------------------------------
\* Inputs explored
\* ------------------------------------------------------------------------
\* c * n
Rep(c, n) == [i \in 1..n |-> c]

\* titles around a cap: blanks in front or behind or neither, a run of "a"
\* ending one short of or at the cap, an optional blank, a tail of "b"
CapTitles(cap) ==
  { Spaces(pad[1]) \o Rep("a", n) \o mid \o Rep("b", m) \o Spaces(pad[2]) :
      pad \in {<<0, 0>>, <<MaxPad, 0>>, <<0, MaxPad>>}, n \in {cap - 1, cap},
      mid \in {<<>>, <<" ">>}, m \in {0, 1, MaxTail} }

ShortTitles == { <<>>, <<" ">>, <<"a">>, <<" ", "a", "b", " ">>, <<"a", "<", "&", "b">> }

\* values tried under "title" / "name"
TitleVals(cap) ==
  {None, Num(0), Num(5), List(<<Num(1)>>)}
    \cup {Str(t) : t \in ShortTitles \cup CapTitles(cap)}

\* values tried under "bullets" / "items" / "lines"
BulletVals ==
  { None, Num(5), EmptyDict, Str(<<>>), Str(<<" ">>), Str(<<" ", "a", " ">>),
    List(<<>>), List(<<Str(<<" ">>)>>), List(<<None, Str(<<>>)>>),
    List(<<Str(<<"a">>)>>),
    List(<<Str(<<" ", "b">>), None, Num(5), Str(<<" ">>), Str(<<"a", "\n", "b">>)>>),
    List(<<Str(<<"a">>), Str(<<"b">>), Num(3), Str(<<"a", "b">>), Str(<<"b", "a">>)>>),
    List(<<Str(<<"a", "<", "'", "&", "l", "t", ";">>), Str(<<"\"", ">">>)>>) }

\* a box given as a dict with the keys present
MkBox(tkey, tv, bkey, bv) ==
  Dict((IF tkey = "" THEN <<>> ELSE (tkey :> tv)) @@ (IF bkey = "" THEN <<>> ELSE (bkey :> bv)))

\* boxes tried in detail: every title with two bullet shapes, every bullet
\* shape with two titles, and the key aliases
DetailBoxes(cap) ==
  { MkBox("title", tv, "bullets", bv) :
      tv \in TitleVals(cap), bv \in {None, List(<<Str(<<"a">>)>>)} }
  \cup { MkBox("title", tv, "bullets", bv) :
      tv \in {None, Str(<<"a">>)}, bv \in BulletVals }
  \cup { MkBox(tk, Str(<<"b">>), bk, List(<<Str(<<"a">>)>>)) :
      tk \in {"", "title", "name"}, bk \in {"", "bullets", "items", "lines"} }
  \cup { Dict([title |-> None, name |-> Str(<<"b">>), bullets |-> List(<<>>),
               items |-> Str(<<"a">>)]),
         Dict([title |-> Str(<<" ">>), name |-> Str(<<"b">>),
               bullets |-> List(<<Str(<<" ">>)>>), items |-> List(<<Str(<<"a">>)>>)]),
         Dict([title |-> Str(<<"a">>), bullets |-> Str(<<" ">>),
               lines |-> Str(<<" ", "b", " ">>)]) }

\* plain valid entries used to fill a list
FillA == Dict([title |-> Str(<<"a">>)])
FillB == Dict([title |-> Str(<<"b">>), bullets |-> List(<<Str(<<"b">>)>>)])

\* entries that are no box at all
Junk == {None, Num(5), Str(<<"a">>), List(<<>>), EmptyDict,
         Dict([title |-> Str(<<" ">>), bullets |-> List(<<Str(<<>>)>>)])}

\* entry i of a marked list: a box whose only bullet is its position, or junk
Marked(i, valid) ==
  IF valid THEN Dict([bullets |-> List(<<Str(Digits(i))>>)]) ELSE Num(5)

\* every list of MaxEntries entries, each marked valid or not
MarkedLists ==
  { [i \in 1..MaxEntries |-> Marked(i, i \in V)] : V \in SUBSET (1..MaxEntries) }

\* lists with one detailed entry at a chosen place among fillers
DetailLists(cap) ==
  UNION { { <<FillA, b, FillB>>, <<b>> } : b \in DetailBoxes(cap) }
  \cup { <<j, FillA, FillB, FillA>> : j \in Junk }

\* values tried in place of a list or of the whole spec
OddVals == { None, Num(0), Num(5), Str(<<>>), Str(<<"a">>), List(<<>>),
             List(<<Num(1)>>), EmptyDict }

TrRawSpecs ==
  OddVals
  \cup { Dict([stages |-> List(xs)]) : xs \in MarkedLists \cup DetailLists(StageTitleCap) }
  \cup { Dict([stages |-> v]) : v \in OddVals \cup {Dict([title |-> Str(<<"a">>)])} }
  \cup { Dict([steps |-> List(<<FillA, FillB, FillA, FillB>>)]),
         Dict([stages |-> List(<<>>), steps |-> List(<<FillB, FillA, FillB>>)]),
         Dict([stages |-> Num(5), steps |-> List(<<FillB, FillA, FillB>>)]),
         Dict([stages |-> List(<<FillA, FillA, FillA>>), steps |-> List(<<FillB>>),
               title |-> Str(<<"b">>)]) }

RfRawSpecs ==
  OddVals
  \cup { Dict([work_packages |-> List(xs)]) : xs \in MarkedLists }
  \cup { Dict([work_packages |-> List(<<b>>)]) : b \in DetailBoxes(BoxTitleCap) }
  \cup { Dict(("goal" :> b)) : b \in DetailBoxes(BoxTitleCap) }
  \cup { Dict((key :> b)) :
           key \in {"hypotheses", "support", "outcomes"},
           b \in {FillB, MkBox("title", Str(Rep("b", BoxTitleCap + 1)), "items",
                               List(<<Str(<<" ">>)>>))} }
  \cup { Dict((key :> v)) :
           key \in {"goal", "hypotheses", "support", "outcomes", "work_packages"},
           v \in OddVals }
  \cup { Dict([modules |-> List(<<FillA, FillB>>)]),
         Dict([work_packages |-> Str(<<"a">>), wps |-> List(<<FillB>>)]),
         Dict([wps |-> List(<<FillB>>), goal |-> FillB, hypotheses |-> FillA,
               support |-> FillB, outcomes |-> FillA]),
         Dict([work_packages |-> List(<<>>), modules |-> Str(<<"a">>),
               wps |-> List(<<FillA, FillB, FillA, FillB>>)]) }

\* an identifier is written as one token, blanks around it as characters
TechnicalRoute == <<"technical_route">>
ResearchFramework == <<"research_framework">>

DiagramTypes ==
  { None, Str(<<>>), Str(<<" ">>), Str(<<"unknown_type">>), Str(<<"Technical_Route">>),
    Str(TechnicalRoute), Str(ResearchFramework),
    Str(<<" ">> \o TechnicalRoute \o <<"\n">>), Str(<<" ">> \o ResearchFramework) }

Titles == { Str(<<"R">>), Str(<<>>), Str(<<" ", "a", "<", "b", "&", " ">>) }

\* dt = (diagram_type or "").strip()
StripType(diagram_type) == Strip(PyStr(Or(diagram_type, Str(<<>>))))

Supported == {TechnicalRoute, ResearchFramework}

\* shapes tried under every diagram type and title
SmallRaw ==
  { None, List(<<Num(1)>>), EmptyDict,
    Dict([stages |-> List(<<FillA, FillB, FillA>>)]),
    Dict([work_packages |-> List(<<FillB>>), goal |-> FillA]) }

\* the calls a second call is compared on
RepeatRaw ==
  { EmptyDict, List(<<Num(1)>>),
    Dict([stages |-> List(<<FillA, FillB, FillA, FillB>>),
          work_packages |-> List(<<FillB>>)]) }

RepeatInputs ==
  [dt : {Str(TechnicalRoute), Str(ResearchFramework), Str(<<"unknown_type">>)},
   raw : RepeatRaw, title : {Str(<<"R">>)}]

\* the calls explored: each archetype with its own shapes under one title,
\* a few shapes under every diagram type and title
Inputs ==
  { [dt |-> Str(TechnicalRoute), raw |-> r, title |-> Str(<<"R">>)] : r \in TrRawSpecs }
  \cup { [dt |-> Str(ResearchFramework), raw |-> r, title |-> Str(<<"R">>)] :
           r \in RfRawSpecs }
  \cup [dt : DiagramTypes, raw : SmallRaw, title : Titles]
  \cup RepeatInputs

\* sets of font files present on the machine
FontFileSets ==
  { {}, {"msyh.ttc", "msyhbd.ttc"}, {"simsun.ttc"},
    {"DejaVuSans.ttf", "DejaVuSans-Bold.ttf"} }

\* ------------------------------------------------------------------------
\* render_infographic_png_svg
\* ------------------------------------------------------------------------
Threads == 1..MaxThreads

NoResult == [k |-> "none"]
Raise(exc) == [k |-> "raise", exc |-> exc]
\* the call returned; the tuple it returned is ReturnValue
Returned == [k |-> "return"]
NoPrev == [k |-> "none"]
\* neither wrapper has been called directly
NoWrap == [k |-> "none"]

\* the helper has not been called directly
NoAssets == [k |-> "none"]

Requests == 1..MaxRequests

\* no request in this place
IdleRequest ==
  [pc |-> "none", diagram_type |-> None, raw_spec |-> None, lines_text |-> None,
   built |-> None, result |-> NoResult]

\* a worker thread that runs no call: every local of the function unbound
IdleThread ==
  [pc |-> "idle", inp |-> None, dt |-> <<>>, spec |-> None, fonts |-> None,
   layout |-> None, png |-> None, svg |-> None, result |-> NoResult]

\* (png, svg, spec) as returned by the current call
ReturnValue == <<out.png, out.svg, norm_spec>>

ThisCall == [dt |-> call_type, raw |-> raw_spec, title |-> call_title]

Init ==
  /\ pc = "idle"
  /\ call_type = None
  /\ raw_spec = None
  /\ call_title = None
  /\ dt = <<>>
  /\ norm_spec = None
  /\ out = None
  /\ result = NoResult
  /\ steps = <<>>
  /\ pillow \in BOOLEAN
  /\ font_files \in FontFileSets
  /\ used_files = {}
  /\ prev = NoPrev
  /\ threads = [t \in Threads |-> IdleThread]
  /\ wrap_call = NoWrap
  /\ loop = 0
  /\ requests = [r \in Requests |-> IdleRequest]
  /\ assets_call = NoAssets

\* the sequential branch taken as the default one
Dispatch_Default(d) ==
  IF d = ResearchFramework THEN "research_framework" ELSE "technical_route"

\* the branch render_infographic_png_svg takes on dt
Dispatch(d) ==
  IF d = TechnicalRoute THEN "technical_route"
  ELSE IF d = ResearchFramework THEN "research_framework"
  ELSE "unsupported"

\* entry of render_infographic_png_svg with arguments inp, up to the branch
Enter(inp) ==
  LET d == StripType(inp.dt) IN
  /\ call_type' = inp.dt
  /\ raw_spec' = inp.raw
  /\ call_title' = inp.title
  /\ dt' = d
  /\ used_files' = {}
  /\ steps' = <<"dispatch">>
  /\ IF Dispatch(d) = "unsupported"
     THEN pc' = "done" /\ result' = Raise("ValueError")
     ELSE pc' = "normalize" /\ result' = NoResult
  /\ UNCHANGED <<route_vars, threads, wrap_call, norm_spec, out, pillow, font_files>>

\* a call with any arguments
Call ==
  /\ pc = "idle"
  /\ \E inp \in Inputs : Enter(inp)
  /\ prev' = NoPrev

\* a call made right after a completed one; the first call of such a run is
\* kept for comparison
CallAgain ==
  /\ pc = "done"
  /\ ThisCall \in RepeatInputs
  /\ \E inp \in RepeatInputs : Enter(inp)
  /\ prev' = IF prev.k = "call" THEN prev
             ELSE [k |-> "call", inp |-> ThisCall, files |-> used_files,
                   result |-> result,
                   value |-> IF result.k = "return" THEN ReturnValue ELSE <<>>]

\* the normaliser the branch calls on (raw_spec or {})
NormalizeSpec(branch, arg, t) ==
  IF branch = "technical_route" THEN _normalize_technical_route_spec(arg, t)
  ELSE _normalize_research_framework_spec(arg, t)

\* spec = _normalize_..._spec(raw_spec or {}, title); the first spec.get of
\* either normaliser raises AttributeError on anything but a dict
Normalize ==
  /\ pc = "normalize"
  /\ steps' = Append(steps, "normalize")
  /\ LET arg == Or(raw_spec, EmptyDict) IN
       IF arg.k = "dict"
       THEN /\ norm_spec' = NormalizeSpec(Dispatch(dt), arg, call_title)
            /\ pc' = "render"
            /\ result' = NoResult
       ELSE /\ norm_spec' = None
            /\ pc' = "done"
            /\ result' = Raise("AttributeError")
  /\ UNCHANGED <<route_vars, threads, wrap_call, call_type, raw_spec, call_title, dt, out, pillow, font_files,
                 used_files, prev>>

\* png, svg = _render_...(spec): _require_pillow, _load_fonts, the layout,
\* the PNG and the SVG
Render ==
  /\ pc = "render"
  /\ IF pillow
     THEN /\ out' = IF Dispatch(dt) = "technical_route"
                    THEN _render_technical_route(norm_spec, font_files)
                    ELSE _render_research_framework(norm_spec, font_files)
          /\ used_files' = font_files
          /\ steps' = steps \o <<"require_pillow", "load_fonts", "layout", "draw_png",
                                 "emit_svg">>
          /\ pc' = "return"
          /\ result' = NoResult
     ELSE /\ out' = None
          /\ used_files' = used_files
          /\ steps' = Append(steps, "require_pillow")
          /\ pc' = "done"
          /\ result' = Raise("RuntimeError")
  /\ UNCHANGED <<route_vars, threads, wrap_call, call_type, raw_spec, call_title, dt, norm_spec, pillow,
                 font_files, prev>>

\* return png, svg, spec
Finish ==
  /\ pc = "return"
  /\ result' = Returned
  /\ pc' = "done"
  /\ UNCHANGED <<route_vars, threads, wrap_call, call_type, raw_spec, call_title, dt, norm_spec, out, steps, pillow,
                 font_files, used_files, prev>>

\* between calls the font files on the machine may change
FontsChange ==
  /\ pc \in {"idle", "done"}
  /\ \E f \in FontFileSets : f # font_files /\ font_files' = f
  /\ UNCHANGED <<route_vars, threads, wrap_call, pc, call_type, raw_spec, call_title, dt, norm_spec, out, result, steps,
                 pillow, used_files, prev>>

\* the caller has taken the result; nothing of the call is kept
Release ==
  /\ pc = "done"
  /\ pc' = "idle"
  /\ call_type' = None
  /\ raw_spec' = None
  /\ call_title' = None
  /\ dt' = <<>>
  /\ norm_spec' = None
  /\ out' = None
  /\ result' = NoResult
  /\ steps' = <<>>
  /\ used_files' = {}
  /\ prev' = NoPrev
  /\ UNCHANGED <<route_vars, threads, wrap_call, pillow, font_files>>

Next == Call \/ CallAgain \/ Normalize \/ Render \/ Finish \/ Release \/ FontsChange

Spec == Init /\ [][Next]_vars

\* ------------------------------------------------------------------------
\* render_infographic_png_svg called from several worker threads at once.
\* Each thread holds the locals of its own call; the threads share what the
\* function reads outside its frame: whether PIL imports and which font
\* files exist.  A thread is switched between the statements below.
\* ------------------------------------------------------------------------
\* the calls the threads make
ConcInputs ==
  [dt : {Str(TechnicalRoute), Str(ResearchFramework)},
   raw : { Dict([stages |-> List(<<FillA, FillB, FillA, FillB>>),
                 work_packages |-> List(<<FillB>>)]) },
   title : {Str(<<"R">>)}]
  \cup { [dt |-> Str(<<"unknown_type">>), raw |-> EmptyDict, title |-> Str(<<"R">>)],
         [dt |-> Str(TechnicalRoute), raw |-> List(<<Num(1)>>), title |-> Str(<<"R">>)],
         [dt |-> Str(TechnicalRoute), raw |-> None, title |-> Str(<<>>)] }

\* the font files present while the threads run
ConcFontFileSets == { {}, {"msyh.ttc", "msyhbd.ttc"} }

\* the variables of the single-caller machine
seq_vars ==
  <<pc, call_type, raw_spec, call_title, dt, norm_spec, out, result, steps, used_files,
    prev>>

\* thread t takes one step that leaves its locals as th
ThreadStep(t, th) ==
  /\ threads' = [threads EXCEPT ![t] = th]
  /\ UNCHANGED <<route_vars, seq_vars, wrap_call, pillow, font_files>>

\* stage_layout as some other call left it, were it kept outside the frame
LayoutSeenBy_Shared(t) ==
  LET Left(u) == threads[u].layout # None /\ threads[u].dt = threads[t].dt
  IN IF \E u \in Threads \ {t} : Left(u)
     THEN threads[CHOOSE u \in Threads \ {t} : Left(u)].layout
     ELSE threads[t].layout

\* the layout the drawing code of thread t reads: the local of its own call
LayoutSeenBy(t) == threads[t].layout

\* dt = (diagram_type or "").strip() and the branch on it
ThreadEnter ==
  \E t \in Threads :
    /\ threads[t].pc = "idle"
    /\ \E inp \in ConcInputs :
         LET d == StripType(inp.dt) IN
         ThreadStep(t, [IdleThread EXCEPT
                          !.inp = inp, !.dt = d,
                          !.pc = IF Dispatch(d) = "unsupported" THEN "done"
                                 ELSE "normalize",
                          !.result = IF Dispatch(d) = "unsupported"
                                     THEN Raise("ValueError") ELSE NoResult])

\* spec = _normalize_..._spec(raw_spec or {}, title)
ThreadNormalize ==
  \E t \in Threads :
    /\ threads[t].pc = "normalize"
    /\ LET th == threads[t]
           arg == Or(th.inp.raw, EmptyDict)
       IN IF arg.k = "dict"
          THEN ThreadStep(t, [th EXCEPT
                                !.spec = NormalizeSpec(Dispatch(th.dt), arg, th.inp.title),
                                !.pc = "fonts"])
          ELSE ThreadStep(t, [th EXCEPT !.pc = "done",
                                        !.result = Raise("AttributeError")])

\* _require_pillow(); fonts = _load_fonts()
ThreadLoadFonts ==
  \E t \in Threads :
    /\ threads[t].pc = "fonts"
    /\ IF pillow
       THEN ThreadStep(t, [threads[t] EXCEPT !.fonts = _load_fonts(font_files),
                                             !.pc = "layout"])
       ELSE ThreadStep(t, [threads[t] EXCEPT !.pc = "done",
                                             !.result = Raise("RuntimeError")])

\* the measure-and-layout part of the renderer
ThreadLayout ==
  \E t \in Threads :
    /\ threads[t].pc = "layout"
    /\ LET th == threads[t] IN
       ThreadStep(t, [th EXCEPT
                        !.layout = IF Dispatch(th.dt) = "technical_route"
                                   THEN TrLayout(th.spec, th.fonts)
                                   ELSE RfLayout(th.spec, th.fonts),
                        !.pc = "png"])

\* the canvas, the draw calls and png_bytes
ThreadDrawPng ==
  \E t \in Threads :
    /\ threads[t].pc = "png"
    /\ LET th == threads[t] IN
       ThreadStep(t, [th EXCEPT
                        !.png = IF Dispatch(th.dt) = "technical_route"
                                THEN TrPng(TitleOf(th.spec, TrDefaultTitle),
                                           LayoutSeenBy(t), th.fonts)
                                ELSE RfPng(TitleOf(th.spec, RfDefaultTitle),
                                           LayoutSeenBy(t), th.fonts),
                        !.pc = "svg"])

\* svg_parts and svg_text
ThreadEmitSvg ==
  \E t \in Threads :
    /\ threads[t].pc = "svg"
    /\ LET th == threads[t] IN
       ThreadStep(t, [th EXCEPT
                        !.svg = IF Dispatch(th.dt) = "technical_route"
                                THEN TrSvg(TitleOf(th.spec, TrDefaultTitle), LayoutSeenBy(t))
                                ELSE RfSvg(TitleOf(th.spec, RfDefaultTitle), LayoutSeenBy(t)),
                        !.pc = "return"])

\* return png, svg, spec: the frame and its locals are gone
ThreadReturn ==
  \E t \in Threads :
    /\ threads[t].pc = "return"
    /\ LET th == threads[t] IN
       ThreadStep(t, [th EXCEPT
                        !.result = [k |-> "return", value |-> <<th.png, th.svg, th.spec>>],
                        !.spec = None, !.fonts = None, !.layout = None, !.png = None,
                        !.svg = None, !.pc = "done"])

\* the thread's caller has taken the result
ThreadRelease ==
  \E t \in Threads :
    /\ threads[t].pc = "done"
    /\ threads' = [threads EXCEPT ![t] = IdleThread]
    /\ UNCHANGED <<route_vars, seq_vars, wrap_call, pillow, font_files>>

NextConc ==
  \/ ThreadEnter
  \/ ThreadNormalize
  \/ ThreadLoadFonts
  \/ ThreadLayout
  \/ ThreadDrawPng
  \/ ThreadEmitSvg
  \/ ThreadReturn
  \/ ThreadRelease

\* ------------------------------------------------------------------------
\* _wrap_text and _wrap_bullet called directly, with any text and budget
\* ------------------------------------------------------------------------
\* texts of up to MaxWrapLen characters: narrow, CJK, blank and newline
WrapTexts ==
  UNION { [1..n -> {"a", "ren", " ", "\n"}] : n \in 0..MaxWrapLen }

\* pixel budgets around the widths of one, two and three characters
WrapBudgets == {1, 5, 6, 11, 12, 13, 22, 23, 33, 34, 44, 60}

\* the fonts _load_fonts returns on this machine
WrapFonts ==
  LET Faces(fonts) == {fonts.title, fonts.header, fonts.body, fonts.body_small, fonts.bold}
  IN Faces(_load_fonts(font_files))

\* lines = _wrap_text(d, text, font, max_width)
WrapText ==
  /\ pillow
  /\ wrap_call = NoWrap
  /\ \E text \in WrapTexts, font \in WrapFonts, max_width \in WrapBudgets :
       wrap_call' = [k |-> "_wrap_text", text |-> text, font |-> font,
                   max_width |-> max_width,
                   lines |-> _wrap_text(text, font, max_width)]
  /\ UNCHANGED <<route_vars, seq_vars, threads, pillow, font_files>>

\* lines = _wrap_bullet(d, text, font, max_width)
WrapBullet ==
  /\ pillow
  /\ wrap_call = NoWrap
  /\ \E text \in WrapTexts, font \in WrapFonts, max_width \in WrapBudgets :
       wrap_call' = [k |-> "_wrap_bullet", text |-> text, font |-> font,
                   max_width |-> max_width,
                   lines |-> _wrap_bullet(text, font, max_width)]
  /\ UNCHANGED <<route_vars, seq_vars, threads, pillow, font_files>>

\* the caller has taken the lines
WrapTaken ==
  /\ wrap_call # NoWrap
  /\ wrap_call' = NoWrap
  /\ UNCHANGED <<route_vars, seq_vars, threads, pillow, font_files>>

NextWrap == WrapText \/ WrapBullet \/ WrapTaken

SpecWrap == Init /\ [][NextWrap]_vars

\* no call is running and the machine is in one of the states tried
InitConc == Init /\ font_files \in ConcFontFileSets

SpecConc == InitConc /\ [][NextConc]_vars

\* ------------------------------------------------------------------------
\* Properties
\* ------------------------------------------------------------------------
\* the current call's normaliser has returned: spec is its normalised spec
SpecReady == pc \in {"render", "return"} \/ (pc = "done" /\ Len(steps) >= 3)

\* the value the current call's normaliser was given: raw_spec or {}
RawArg == Or(raw_spec, EmptyDict)

\* an entry of a stage or work-package list counts: it is a dict with a
\* non-blank title (or name) or at least one non-blank bullet
ValidEntry(e) ==
  /\ e.k = "dict"
  /\ \/ Strip(PyStr(Or(Or(Get(e, "title"), Get(e, "name")), Str(<<>>)))) # <<>>
     \/ _normalize_list(BulletsOf(e), BulletLimit, <<>>) # <<>>

\* the number of entries of xs[1..i] that count
ValidUpTo(xs, i) == Cardinality({j \in 1..i : ValidEntry(xs[j])})

\* C1: whatever is supplied under stages / steps, the sequential normaliser
\* returns a stage list of at least 3 and at most 6 stages.
C1_StageCountBounds ==
  (SpecReady /\ dt = TechnicalRoute) =>
    /\ norm_spec.d.stages.k = "list"
    /\ Len(norm_spec.d.stages.xs) >= 3
    /\ Len(norm_spec.d.stages.xs) <= 6

\* seven valid stages were supplied and six were kept
C1_Witness ==
  /\ SpecReady
  /\ dt = TechnicalRoute
  /\ raw_spec.k = "dict"
  /\ ValidUpTo(StagesOf(raw_spec), Len(StagesOf(raw_spec))) = 7
  /\ Len(norm_spec.d.stages.xs) = 6

\* C2: the hierarchical normaliser returns the four singleton boxes and
\* exactly 3 work packages; with k < 3 valid work packages supplied, places
\* k+1..3 hold the default box titled "WP{n} ..." with n the place.
C2_FrameworkShape ==
  (SpecReady /\ dt = ResearchFramework) =>
    /\ DOMAIN norm_spec.d = {"title", "goal", "hypotheses", "support", "work_packages", "outcomes"}
    /\ \A key \in {"goal", "hypotheses", "support", "outcomes"} :
         /\ norm_spec.d[key].k = "dict"
         /\ DOMAIN norm_spec.d[key].d = {"title", "bullets"}
    /\ Len(norm_spec.d.work_packages.xs) = 3
    /\ LET given == WpsOf(RawArg)
           kept == ValidUpTo(given, Len(given))
       IN \A n \in 1..3 :
            n > kept =>
              /\ Take(norm_spec.d.work_packages.xs[n].d.title.s, 3) = <<"W", "P", DigitChar[n + 1]>>
              /\ norm_spec.d.work_packages.xs[n] = Box(WpPadTitle(n), WpDefaultBullets)
              /\ \A m \in 1..kept :
                   LET e == given[CHOOSE j \in 1..Len(given) :
                                    ValidEntry(given[j]) /\ ValidUpTo(given, j) = m]
                       b == _normalize_list(BulletsOf(e), 4, <<>>)
                   IN norm_spec.d.work_packages.xs[m].d.bullets =
                        StrList(IF b = <<>> THEN WpDefaultBullets ELSE b)

\* one valid work package was supplied and WP2, WP3 were appended after it
C2_Witness ==
  /\ SpecReady
  /\ dt = ResearchFramework
  /\ raw_spec.k = "dict"
  /\ ValidUpTo(WpsOf(raw_spec), Len(WpsOf(raw_spec))) = 1
  /\ norm_spec.d.work_packages.xs[1].d.title.s = <<"b">>
  /\ norm_spec.d.work_packages.xs[2].d.title.s = WpPadTitle(2)
  /\ norm_spec.d.work_packages.xs[3].d.title.s = WpPadTitle(3)

\* C3: for a supported diagram type and any raw_spec value, a call with
\* Pillow available ends in a return, never in an error raised on the shape
\* of the input.
C3_NormalizationNeverFails ==
  (pc = "done" /\ StripType(call_type) \in Supported /\ pillow) => result.k = "return"

\* C4: normalising a normalised spec again, under the same title, returns
\* the same spec (same box titles, bullets and order).
C4_Idempotent ==
  SpecReady =>
    NormalizeSpec(IF dt = TechnicalRoute THEN "technical_route" ELSE "research_framework",
                  norm_spec, call_title) = norm_spec

\* the title a list entry supplies: title, else name
EntryTitle(e) == Or(Or(Get(e, "title"), Get(e, "name")), Str(<<>>))

\* the titles of all boxes of the normalised spec, with their caps
SpecTitles ==
  IF dt = TechnicalRoute
  THEN { <<norm_spec.d.stages.xs[i].d.title.s, 32>> : i \in 1..Len(norm_spec.d.stages.xs) }
  ELSE { <<norm_spec.d[key].d.title.s, 28>> : key \in {"goal", "hypotheses", "support", "outcomes"} }
       \cup { <<norm_spec.d.work_packages.xs[i].d.title.s, 28>> :
                i \in 1..Len(norm_spec.d.work_packages.xs) }

\* the pairs <<supplied title text, normalised title, cap>> of the boxes that
\* were supplied with a string title and kept by the normaliser
KeptTitles ==
  IF dt = TechnicalRoute
  THEN LET given == StagesOf(RawArg) IN
       { <<EntryTitle(given[j]).s, norm_spec.d.stages.xs[ValidUpTo(given, j)].d.title.s, 32>> :
           j \in { i \in 1..Len(given) :
                     /\ ValidEntry(given[i])
                     /\ EntryTitle(given[i]).k = "str"
                     /\ ValidUpTo(given, Len(given)) >= 3
                     /\ ValidUpTo(given, i) <= 6 } }
  ELSE LET given == WpsOf(RawArg) IN
       { <<EntryTitle(given[j]).s,
           norm_spec.d.work_packages.xs[ValidUpTo(given, j)].d.title.s, 28>> :
           j \in { i \in 1..Len(given) :
                     /\ ValidEntry(given[i])
                     /\ EntryTitle(given[i]).k = "str"
                     /\ ValidUpTo(given, i) <= 3 } }
       \cup
       { <<Get(Get(RawArg, key), "title").s, norm_spec.d[key].d.title.s, 28>> :
           key \in { kk \in {"goal", "hypotheses", "support", "outcomes"} :
                       /\ Get(RawArg, kk).k = "dict"
                       /\ Get(Get(RawArg, kk), "title").k = "str" } }

\* C5 as stated: a supplied title longer than its cap (32 for stages, 28 for
\* the other boxes) appears as its own first cap characters, and no
\* normalised title is longer than its cap.
C5_TitleTruncatedToCap ==
  SpecReady =>
    /\ \A p \in KeptTitles :
         Len(p[1]) > p[3] => (Len(p[2]) = p[3] /\ p[2] = SubSeq(p[1], 1, p[3]))
    /\ \A q \in SpecTitles : Len(q[1]) <= q[2]

\* C5 amended: a supplied title whose blank-stripped text is longer than its
\* cap appears as the first cap characters of the stripped text, with nothing
\* appended, and no normalised title is longer than its cap.
C5_StrippedTitleTruncated ==
  SpecReady =>
    /\ \A p \in KeptTitles :
         Len(Strip(p[1])) > p[3] =>
           (Len(p[2]) = p[3] /\ p[2] = SubSeq(Strip(p[1]), 1, p[3]))
    /\ \A q \in SpecTitles : Len(q[1]) <= q[2]

\* a kept box was supplied a title with a leading blank whose stripped text
\* is longer than the cap
C5_Witness ==
  /\ SpecReady
  /\ \E p \in KeptTitles :
       /\ Len(Strip(p[1])) > p[3]
       /\ Head(p[1]) = " "
       /\ Len(p[2]) = p[3]

\* the boxes of the normalised spec
SpecBoxes ==
  IF dt = TechnicalRoute
  THEN { norm_spec.d.stages.xs[i] : i \in 1..Len(norm_spec.d.stages.xs) }
  ELSE { norm_spec.d[key] : key \in {"goal", "hypotheses", "support", "outcomes"} }
       \cup { norm_spec.d.work_packages.xs[i] : i \in 1..Len(norm_spec.d.work_packages.xs) }

\* C6: every box of a normalised spec carries between 1 and 4 bullets, each
\* a non-empty string.
C6_BulletsOneToFour ==
  SpecReady =>
    \A b \in SpecBoxes :
      /\ b.d.bullets.k = "list"
      /\ Len(b.d.bullets.xs) >= 1
      /\ Len(b.d.bullets.xs) <= 4
      /\ \A i \in 1..Len(b.d.bullets.xs) :
           b.d.bullets.xs[i].k = "str" /\ b.d.bullets.xs[i].s # <<>>

\* C7: a call whose diagram type is neither archetype ends at once in a
\* ValueError: no normalisation, Pillow check, layout or drawing step has
\* run and nothing is returned.
C7_UnsupportedTypeRaisesFirst ==
  (pc # "idle" /\ StripType(call_type) \notin Supported) =>
    /\ pc = "done"
    /\ result = Raise("ValueError")
    /\ steps = <<"dispatch">>

\* a call with an unknown diagram type has ended
C7_Witness ==
  /\ pc = "done"
  /\ call_type = Str(<<"unknown_type">>)
  /\ raw_spec = EmptyDict
  /\ result = Raise("ValueError")

\* the current call's renderer has returned: out is its (png, svg)
OutReady == pc = "return" \/ (pc = "done" /\ result.k = "return")

\* the connectors the PNG draws and the SVG emits, as <<x1, y1, x2, y2>>
PngArrows ==
  LET a == SelectSeq(out.png.ops, LAMBDA o : o.op = "arrow")
  IN [i \in 1..Len(a) |-> <<a[i].x1, a[i].y1, a[i].x2, a[i].y2>>]

SvgLines ==
  LET a == SelectSeq(out.svg, LAMBDA e : e.el = "line")
  IN [i \in 1..Len(a) |-> <<a[i].x1, a[i].y1, a[i].x2, a[i].y2>>]

\* the set of elements of a sequence
Range(f) == {f[i] : i \in DOMAIN f}

\* C8: a hierarchical render draws exactly 11 connectors, in the PNG and in
\* the SVG alike: Goal to Hypotheses and to Support, Hypotheses and Support
\* to each of the 3 work packages, each work package to Outcomes.
C8_ElevenConnectors ==
  (OutReady /\ dt = ResearchFramework) =>
    LET Link(a, b) == <<a.x + a.w \div 2, a.y + a.h + 6, b.x + b.w \div 2, b.y - 8>>
        Expected(L) ==
          {Link(L.goal, L.hyp), Link(L.goal, L.sup)}
            \cup {Link(L.hyp, L.wps[i]) : i \in 1..3}
            \cup {Link(L.sup, L.wps[i]) : i \in 1..3}
            \cup {Link(L.wps[i], L.out) : i \in 1..3}
        Drawn(L, expected) ==
          /\ Len(L.wps) = 3
          /\ Cardinality(expected) = 11
          /\ Len(PngArrows) = 11
          /\ Range(PngArrows) = expected
          /\ Len(SvgLines) = 11
          /\ Range(SvgLines) = expected
        Check(L) == Drawn(L, Expected(L))
    IN Check(RfLayout(norm_spec, _load_fonts(used_files)))

\* five work packages were supplied and the render drew 11 connectors
C8_Witness ==
  /\ OutReady
  /\ dt = ResearchFramework
  /\ raw_spec.k = "dict"
  /\ ValidUpTo(WpsOf(raw_spec), Len(WpsOf(raw_spec))) = 5
  /\ Len(PngArrows) = 11
  /\ Len(SvgLines) = 11

\* C9 as stated: stage_count - 1 connectors, the a-th from the centre of the
\* bottom edge of stage a to the centre of the top edge of stage a + 1, its
\* start above its end.
C9_ConnectorsEdgeToEdge ==
  (OutReady /\ dt = TechnicalRoute) =>
    LET Drawn(B) ==
          LET Link(a) == <<B[a].x + B[a].w \div 2, B[a].y + B[a].h,
                           B[a + 1].x + B[a + 1].w \div 2, B[a + 1].y>>
          IN /\ Len(B) = Len(norm_spec.d.stages.xs)
             /\ Len(PngArrows) = Len(B) - 1
             /\ Len(SvgLines) = Len(B) - 1
             /\ \A a \in 1..(Len(B) - 1) :
                  /\ PngArrows[a] = Link(a)
                  /\ SvgLines[a] = Link(a)
                  /\ PngArrows[a][2] < PngArrows[a][4]
    IN Drawn(TrLayout(norm_spec, _load_fonts(used_files)).boxes)

\* C9 amended: stage_count - 1 connectors, the a-th from 8 px below the
\* centre of the bottom edge of stage a to 8 px above the centre of the top
\* edge of stage a + 1, its start above its end.
C9_ConnectorsWithClearance ==
  (OutReady /\ dt = TechnicalRoute) =>
    LET Drawn(B) ==
          LET Link(a) == <<B[a].x + B[a].w \div 2, B[a].y + B[a].h + 8,
                           B[a + 1].x + B[a + 1].w \div 2, B[a + 1].y - 8>>
          IN /\ Len(B) = Len(norm_spec.d.stages.xs)
             /\ Len(PngArrows) = Len(B) - 1
             /\ Len(SvgLines) = Len(B) - 1
             /\ \A a \in 1..(Len(B) - 1) :
                  /\ PngArrows[a] = Link(a)
                  /\ SvgLines[a] = Link(a)
                  /\ PngArrows[a][2] < PngArrows[a][4]
    IN Drawn(TrLayout(norm_spec, _load_fonts(used_files)).boxes)

\* six stages were rendered with five connectors
C9_Witness ==
  /\ OutReady
  /\ dt = TechnicalRoute
  /\ Len(norm_spec.d.stages.xs) = 6
  /\ Len(PngArrows) = 5
  /\ Len(SvgLines) = 5

NthValid(xs, m) ==
  xs[CHOOSE j \in 1..Len(xs) : ValidEntry(xs[j]) /\ ValidUpTo(xs, j) = m]

\* the box a valid entry e is kept as: its stripped title (auto when blank)
\* cut at cap, its cleaned bullets (defaults when none)
KeptAs(e, cap, auto, defaults) ==
  LET KeptBox(t, b) ==
        Box(Take(IF t = <<>> THEN auto ELSE t, cap), IF b = <<>> THEN defaults ELSE b)
  IN KeptBox(Strip(PyStr(EntryTitle(e))), _normalize_list(BulletsOf(e), BulletLimit, <<>>))

\* C11: with v valid entries supplied, the kept stages are the first
\* min(v, 6) valid stage entries in input order (v >= 3, so that the skeleton
\* does not replace them) and work packages 1..min(v, 3) are the first
\* min(v, 3) valid work-package entries in input order; later entries are
\* dropped.
C11_FirstValidKept ==
  SpecReady =>
    /\ dt = TechnicalRoute =>
         LET given == StagesOf(RawArg)
             v == ValidUpTo(given, Len(given))
         IN v >= StageMin =>
              norm_spec.d.stages.xs =
                [m \in 1..Min(v, StageMax) |->
                   KeptAs(NthValid(given, m), StageTitleCap, StageAutoTitle(m),
                          StageDefaultBullets)]
    /\ dt = ResearchFramework =>
         LET given == WpsOf(RawArg)
             v == ValidUpTo(given, Len(given))
         IN SubSeq(norm_spec.d.work_packages.xs, 1, Min(v, WpTotal)) =
              [m \in 1..Min(v, WpTotal) |->
                 KeptAs(NthValid(given, m), BoxTitleCap, WpAutoTitle(m),
                        WpDefaultBullets)]

\* seven entries were supplied, the first of them junk and the other six
\* valid: the sequential normaliser kept entries 2..7 as its six stages, the
\* hierarchical one entries 2..4 as its three work packages
C11_Witness ==
  /\ SpecReady
  /\ raw_spec.k = "dict"
  /\ \/ /\ dt = TechnicalRoute
        /\ StagesOf(raw_spec) = [i \in 1..7 |-> Marked(i, i # 1)]
        /\ Len(norm_spec.d.stages.xs) = 6
        /\ norm_spec.d.stages.xs[6].d.bullets = StrList(<<Digits(7)>>)
     \/ /\ dt = ResearchFramework
        /\ WpsOf(raw_spec) = [i \in 1..7 |-> Marked(i, i # 1)]
        /\ norm_spec.d.work_packages.xs[3].d.bullets = StrList(<<Digits(4)>>)

\* C12: with 0, 1 or 2 valid stages supplied, the normalised stage list is
\* the fixed 3-stage skeleton with its own bullets, and no supplied stage is
\* among its boxes.
C12_SkeletonReplacesAll ==
  (SpecReady /\ dt = TechnicalRoute) =>
    LET given == StagesOf(RawArg)
        v == ValidUpTo(given, Len(given))
    IN v < StageMin =>
         /\ norm_spec.d.stages.xs = DefaultStages
         /\ Len(norm_spec.d.stages.xs) = 3
         /\ \A m \in 1..v :
              KeptAs(NthValid(given, m), StageTitleCap, StageAutoTitle(m),
                     StageDefaultBullets) \notin Range(norm_spec.d.stages.xs)

\* two valid stages were supplied among junk and the skeleton came out
C12_Witness ==
  /\ SpecReady
  /\ dt = TechnicalRoute
  /\ raw_spec.k = "dict"
  /\ Len(StagesOf(raw_spec)) = 7
  /\ ValidUpTo(StagesOf(raw_spec), 7) = 2
  /\ norm_spec.d.stages.xs = DefaultStages

\* ------------------------------------------------------------------------
\* the main rectangles of the boxes in the vector document: the <rect>
\* elements with stroke-width 2 (background, stripe and badge have 0, 0, 1)
SvgBoxRects == SelectSeq(out.svg, LAMBDA e : e.el = "rect" /\ e.sw = 2)

\* the main rectangles of the boxes on the raster: the rounded rectangles
\* drawn with an outline of width 2
PngBoxRects == SelectSeq(out.png.ops, LAMBDA o : o.op = "rrect" /\ o.lw = 2)

\* C13: the vector document of a sequential render holds one box rectangle
\* per normalised stage, in stage order down the page, and one connector
\* line per adjacent pair; with an empty stage list supplied, 3 box
\* rectangles and 2 connector lines.
C13_OneBoxPerStage ==
  (OutReady /\ dt = TechnicalRoute) =>
    LET n == Len(norm_spec.d.stages.xs)
    IN /\ Len(SvgBoxRects) = n
       /\ Len(SvgLines) = n - 1
       /\ \A i \in 1..(n - 1) :
            /\ SvgBoxRects[i].y + SvgBoxRects[i].h < SvgBoxRects[i + 1].y
            /\ SvgLines[i][2] > SvgBoxRects[i].y + SvgBoxRects[i].h
            /\ SvgLines[i][4] < SvgBoxRects[i + 1].y
       /\ StagesOf(RawArg) = <<>> => (Len(SvgBoxRects) = 3 /\ Len(SvgLines) = 2)

\* an empty stage list was rendered: 3 box rectangles and 2 connector lines
C13_Witness ==
  /\ OutReady
  /\ dt = TechnicalRoute
  /\ raw_spec = Dict([stages |-> List(<<>>)])
  /\ Len(SvgBoxRects) = 3
  /\ Len(SvgLines) = 2

\* C14: the vector document has the width and height of the raster canvas,
\* the main rectangle of each box has the same x, y, width and height in
\* both outputs, and each connector the same start and end point.
C14_BackendsAligned ==
  OutReady =>
    /\ out.svg[1].el = "svg"
    /\ out.svg[1].w = out.png.w
    /\ out.svg[1].h = out.png.h
    /\ Len(SvgBoxRects) = Len(PngBoxRects)
    /\ Len(SvgBoxRects) >= 3
    /\ \A i \in 1..Len(SvgBoxRects) :
         /\ SvgBoxRects[i].x = PngBoxRects[i].x0
         /\ SvgBoxRects[i].y = PngBoxRects[i].y0
         /\ SvgBoxRects[i].w = PngBoxRects[i].x1 - PngBoxRects[i].x0
         /\ SvgBoxRects[i].h = PngBoxRects[i].y1 - PngBoxRects[i].y0
    /\ SvgLines = PngArrows
    /\ Len(SvgLines) >= 2

\* a hierarchical diagram taller than its floor was rendered with 7 boxes
\* and 11 connectors in each output
C14_Witness ==
  /\ OutReady
  /\ dt = ResearchFramework
  /\ out.png.h > RfFloor
  /\ Len(PngBoxRects) = 7
  /\ Len(SvgBoxRects) = 7
  /\ Len(PngArrows) = 11

\* ------------------------------------------------------------------------
\* what the call inp gives when it is the only call running
Alone(inp) ==
  LET d == StripType(inp.dt)
      arg == Or(inp.raw, EmptyDict)
      Tuple(sp, o) == [k |-> "return", value |-> <<o.png, o.svg, sp>>]
      Rendered(sp) ==
        Tuple(sp, IF Dispatch(d) = "technical_route"
                  THEN _render_technical_route(sp, font_files)
                  ELSE _render_research_framework(sp, font_files))
  IN IF Dispatch(d) = "unsupported" THEN Raise("ValueError")
     ELSE IF arg.k # "dict" THEN Raise("AttributeError")
     ELSE IF ~pillow THEN Raise("RuntimeError")
     ELSE Rendered(NormalizeSpec(Dispatch(d), arg, inp.title))

PngShadows == SelectSeq(out.png.ops, LAMBDA o : o.op = "rrect" /\ o.fill.hex = "#0F172A")

\* the drop shadows in the vector document: a <rect> of the size of a box's
\* main rectangle, offset by (3, 5) from it
SvgShadows ==
  SelectSeq(out.svg, LAMBDA e :
    /\ e.el = "rect"
    /\ \E i \in 1..Len(SvgBoxRects) :
         /\ e.x = SvgBoxRects[i].x + 3
         /\ e.y = SvgBoxRects[i].y + 5
         /\ e.w = SvgBoxRects[i].w
         /\ e.h = SvgBoxRects[i].h)

\* left accent stripes: 10 px wide, as high as the box, at the box's corner
PngStripes ==
  SelectSeq(out.png.ops, LAMBDA o : o.op = "rrect" /\ o.fill.hex = TrAccent)
SvgStripes == SelectSeq(out.svg, LAMBDA e : e.el = "rect" /\ e.fill = TrAccent)

\* numbered badges: the pills of corner radius 14
PngBadges == SelectSeq(out.png.ops, LAMBDA o : o.op = "rrect" /\ o.radius = 14)
SvgBadges == SelectSeq(out.svg, LAMBDA e : e.el = "rect" /\ e.rx = 14)

\* the texts drawn, in order: diagram title, then per box its badge number
\* (sequential only), its header and its body lines
PngTexts == SelectSeq(out.png.ops, LAMBDA o : o.op = "text")
SvgTexts == SelectSeq(out.svg, LAMBDA e : e.el = "text")

\* both backends draw, for every box, the main rectangle, the stripe where
\* the box has one, the badge (sequential only, numbered 1..n), the header
\* and the same body lines in the same order
SamePrimitivesButShadow ==
  OutReady =>
    /\ Len(PngBoxRects) = Len(SvgBoxRects)
    /\ Len(PngStripes) = Len(SvgStripes)
    /\ \A i \in 1..Len(PngStripes) :
         /\ PngStripes[i].x0 = SvgStripes[i].x
         /\ PngStripes[i].y0 = SvgStripes[i].y
         /\ PngStripes[i].x1 - PngStripes[i].x0 = SvgStripes[i].w
         /\ PngStripes[i].y1 - PngStripes[i].y0 = SvgStripes[i].h
    /\ Len(PngBadges) = Len(SvgBadges)
    /\ Len(PngBadges) = IF dt = TechnicalRoute THEN Len(PngBoxRects) ELSE 0
    /\ \A i \in 1..Len(PngBadges) :
         /\ PngBadges[i].x0 = SvgBadges[i].x
         /\ PngBadges[i].y0 = SvgBadges[i].y
         /\ \E j \in 1..Len(PngTexts) :
              /\ PngTexts[j].text = Digits(i)
              /\ SvgTexts[j].content = Digits(i)
              /\ SvgTexts[j].x = SvgBadges[i].x + 23
    /\ Len(PngTexts) = Len(SvgTexts)
    /\ \A j \in 1..Len(PngTexts) : SvgTexts[j].content = _escape_xml(PngTexts[j].text)

\* C16: for every box both backends draw the same structural primitives: the
\* drop-shadow-offset rectangle, the main rectangle, the stripe where the box
\* has one, the badge (sequential only), the header and the same body lines.
C16_SamePrimitives ==
  /\ SamePrimitivesButShadow
  /\ OutReady =>
       /\ Len(PngShadows) = Len(PngBoxRects)
       /\ Len(SvgShadows) = Len(SvgBoxRects)

\* ------------------------------------------------------------------------
\* the height _box_height computes for a box of the normalised spec on its
\* own, at column width w
OwnHeight(box, w) == _box_height(box, w, _load_fonts(used_files)).h

\* C17: in the hierarchical layout Hypotheses and Support are drawn with one
\* height, the larger of their own two heights; the three work packages with
\* one height, the largest of their own three; the row after each starts
\* below that height.  Boxes are drawn in the order goal, hypotheses,
\* support, WP1..WP3, outcomes.
C17_RowMaxHeight ==
  (OutReady /\ dt = ResearchFramework) =>
    LET Larger(a, b) == IF a >= b THEN a ELSE b
        Rows(R, hy, su, wp) ==
          /\ Len(R) = 7
          /\ R[2].h = Larger(hy, su)
          /\ R[3].h = Larger(hy, su)
          /\ R[2].h >= hy /\ R[2].h >= su /\ R[2].h \in {hy, su}
          /\ R[2].y = R[3].y
          /\ \A i \in 4..6 :
               /\ R[i].h = Larger(Larger(wp[1], wp[2]), wp[3])
               /\ R[i].y = R[4].y
               /\ R[i].y >= R[2].y + Larger(hy, su)
               /\ R[i].y = R[2].y + Larger(hy, su) + RfGap + 10
          /\ R[7].y >= R[4].y + Larger(Larger(wp[1], wp[2]), wp[3])
          /\ R[7].y = R[4].y + Larger(Larger(wp[1], wp[2]), wp[3]) + RfGap + 10
    IN Rows(SvgBoxRects,
            OwnHeight(norm_spec.d.hypotheses, (RfInnerW - RfGap) \div 2),
            OwnHeight(norm_spec.d.support, (RfInnerW - RfGap) \div 2),
            [i \in 1..3 |-> OwnHeight(norm_spec.d.work_packages.xs[i],
                                      (RfInnerW - RfGap * 2) \div 3)])

\* Support is higher on its own than Hypotheses, WP2 and WP3 higher than
\* WP1, and each row was drawn at one height
C17_Witness ==
  /\ OutReady
  /\ dt = ResearchFramework
  /\ OwnHeight(norm_spec.d.hypotheses, (RfInnerW - RfGap) \div 2)
       > OwnHeight(norm_spec.d.support, (RfInnerW - RfGap) \div 2)
  /\ OwnHeight(norm_spec.d.work_packages.xs[1], (RfInnerW - RfGap * 2) \div 3)
       < OwnHeight(norm_spec.d.work_packages.xs[2], (RfInnerW - RfGap * 2) \div 3)
  /\ SvgBoxRects[2].h = SvgBoxRects[3].h
  /\ SvgBoxRects[4].h = SvgBoxRects[5].h

\* ------------------------------------------------------------------------
\* the (height, wrap_call lines) computed for each box of the current render,
\* before any row is levelled: the stages, or goal, hypotheses, support,
\* WP1..WP3, outcomes
Measured ==
  LET fonts == _load_fonts(used_files)
      col_w == (RfInnerW - RfGap) \div 2
      wp_w == (RfInnerW - RfGap * 2) \div 3
  IN IF dt = TechnicalRoute
     THEN TrLayout(norm_spec, fonts).boxes
     ELSE << _box_height(norm_spec.d.goal, RfInnerW, fonts),
             _box_height(norm_spec.d.hypotheses, col_w, fonts),
             _box_height(norm_spec.d.support, col_w, fonts) >>
          \o [i \in 1..3 |-> _box_height(norm_spec.d.work_packages.xs[i], wp_w, fonts)]
          \o << _box_height(norm_spec.d.outcomes, RfInnerW, fonts) >>

\* C18: a box's computed height is header height + wrap_call line count x 30
\* + 28 of padding (header 56 for a stage, 54 for a hierarchical box), so of
\* two boxes of one render the one with more wrap_call lines is never lower.
C18_HeightFromLineCount ==
  OutReady =>
    LET Heights(M, header) ==
          /\ \A i \in 1..Len(M) : M[i].h = header + Len(M[i].lines) * 30 + 10 + 18
          /\ \A i, j \in 1..Len(M) :
               Len(M[i].lines) >= Len(M[j].lines) => M[i].h >= M[j].h
    IN Heights(Measured, IF dt = TechnicalRoute THEN 56 ELSE 54)

\* a hierarchical render whose goal wraps to more lines than its outcomes
\* and is computed higher
C18_Witness ==
  /\ OutReady
  /\ dt = ResearchFramework
  /\ Len(Measured[1].lines) > Len(Measured[7].lines)
  /\ Measured[1].h > Measured[7].h
  /\ Len(Measured[1].lines) >= 4

\* ------------------------------------------------------------------------
\* the y the layout has reached after its last row, bottom margin included:
\* the sequential loop adds gap + arrow_gap after every stage, the last too
Extent ==
  LET R == PngBoxRects
  IN IF dt = TechnicalRoute
     THEN R[Len(R)].y1 + TrGap + TrArrowGap + 70
     ELSE R[Len(R)].y1 + 70

\* C19: the canvas is 1600 wide in every render and as high as the larger of
\* the archetype's floor (900 sequential, 980 hierarchical) and the extent
\* of its rows, gaps and margins (the first row starting at top + 70).
C19_CanvasSize ==
  OutReady =>
    LET Sized(floor, extent) ==
          /\ out.png.w = 1600
          /\ out.svg[1].w = 1600
          /\ PngBoxRects[1].y0 = 80 + 70
          /\ out.png.h >= floor
          /\ out.png.h >= extent
          /\ out.png.h \in {floor, extent}
    IN Sized(IF dt = TechnicalRoute THEN 900 ELSE 980, Extent)

\* three one-bullet stages end above the floor and the canvas is 900 high
C19_Witness ==
  /\ OutReady
  /\ dt = TechnicalRoute
  /\ Len(PngBoxRects) = 3
  /\ Extent < 900
  /\ out.png.h = 900
  /\ out.png.w = 1600

\* ------------------------------------------------------------------------
\* every line the last wrapper call returned measures at most its budget,
\* or is one of the lines listed as exempt
WithinBudgetBut(exempt) ==
  wrap_call.k # "none" =>
    \A i \in 1..Len(wrap_call.lines) :
      \/ _text_width(wrap_call.lines[i], wrap_call.font) <= wrap_call.max_width
      \/ wrap_call.lines[i] \in exempt

\* what does hold: a line of _wrap_text is within the budget unless it is a
\* single character, which is placed without being measured
WrapTextWithinBudgetOrSingle ==
  wrap_call.k = "_wrap_text" => WithinBudgetBut({<<c>> : c \in {"a", "ren", " "}})

RECURSIVE SkipNewlines(_, _)
\* the first position of s at or after p that holds no newline
SkipNewlines(s, p) ==
  IF p <= Len(s) /\ s[p] = "\n" THEN SkipNewlines(s, p + 1) ELSE p

RECURSIVE LineStart(_, _, _)
\* where line i of lines starts in s, when the lines are read off s in order
LineStart(s, lines, i) ==
  IF i = 1 THEN SkipNewlines(s, 1)
  ELSE SkipNewlines(s, LineStart(s, lines, i - 1) + Len(lines[i - 1]))

\* the lines are pieces of s, each closed by a newline, by the end of s, or
\* because the next character would not fit
GreedyLines(s, lines, font, max_width) ==
  \A i \in 1..Len(lines) :
    LET Closed(from, to) ==
          /\ to <= Len(s)
          /\ lines[i] = SubSeq(s, from, to)
          /\ \A p \in from..to : s[p] # "\n"
          /\ \/ to = Len(s)
             \/ s[to + 1] = "\n"
             \/ /\ i < Len(lines)
                /\ s[to + 1] = lines[i + 1][1]
                /\ _text_width(Append(lines[i], s[to + 1]), font) > max_width
    IN Closed(LineStart(s, lines, i), LineStart(s, lines, i) + Len(lines[i]) - 1)

\* C21: _wrap_text closes a line only at a newline or when the next character
\* would make the line measure more than max_width: every returned line not
\* ended by a newline or by the end of the text measures more than max_width
\* together with the first character of the next line, and no returned line
\* holds a newline.
C21_GreedyNewlineRespecting ==
  wrap_call.k = "_wrap_text" =>
    GreedyLines(Strip(wrap_call.text), wrap_call.lines, wrap_call.font,
                wrap_call.max_width)

\* a text without newline was cut in two because its third character did not fit
C21_Witness ==
  /\ wrap_call.k = "_wrap_text"
  /\ wrap_call.text = <<"a", "a", "ren">>
  /\ wrap_call.font.face # "default"
  /\ wrap_call.lines = << <<"a", "a">>, <<"ren">> >>
  /\ _text_width(<<"a", "a">>, wrap_call.font) <= wrap_call.max_width

\* ------------------------------------------------------------------------
\* the last _wrap_bullet call returned the marker on its first line and, on
\* every later line, a run of n spaces with Fits(n), before the wrapped text
IndentedBy(Fits(_)) ==
  LET Shape(wrapped) ==
        /\ Len(wrap_call.lines) = Len(wrapped)
        /\ \A i \in 1..Len(wrapped) :
             IF i = 1 THEN wrap_call.lines[1] = BulletPrefix \o wrapped[1]
             ELSE \E n \in 0..Len(wrap_call.lines[i]) :
                    /\ wrap_call.lines[i] = Spaces(n) \o wrapped[i]
                    /\ Fits(n)
  IN Shape(_wrap_text(wrap_call.text, wrap_call.font,
                      Max(1, wrap_call.max_width
                               - _text_width(BulletPrefix, wrap_call.font))))

\* what does hold: the indent has as many spaces as the marker has characters
BulletIndentByCount ==
  wrap_call.k = "_wrap_bullet" =>
    LET SameCount(n) == n = Len(BulletPrefix) IN IndentedBy(SameCount)

\* C22: _wrap_bullet puts the marker before its first line and, before every
\* continuation line, a run of spaces as wide when rendered as the marker, so
\* that the text of every line starts at the same horizontal offset.
C22_HangingIndentWidth ==
  wrap_call.k = "_wrap_bullet" =>
    LET SameWidth(n) == _text_width(Spaces(n), wrap_call.font)
                          = _text_width(BulletPrefix, wrap_call.font)
    IN IndentedBy(SameWidth)

\* ------------------------------------------------------------------------
\* a value carries a usable title: a string that is not blank
UsableTitle(v) == v.k = "str" /\ Strip(v.s) # <<>>

\* a value carries usable bullets: a list with a non-blank item, or a
\* non-blank string
UsableBullets(v) == _normalize_list(v, BulletLimit, <<>>) # <<>>

\* an alias with usable content stands behind one whose value is truthy
\* without being usable
Shadowed(vals, Usable(_)) ==
  \E i, j \in 1..Len(vals) : i < j /\ Truthy(vals[i]) /\ ~Usable(vals[i]) /\ Usable(vals[j])

\* when an alias of vals carries usable content, got is the content of one
\* that does (unless shadowed, when strict is off)
AliasUsed(vals, Usable(_), Content(_), got, strict) ==
  ((\E j \in 1..Len(vals) : Usable(vals[j])) /\ (strict \/ ~Shadowed(vals, Usable)))
    => \E j \in 1..Len(vals) : Usable(vals[j]) /\ got = Content(vals[j])

BulletAliases(e) == <<Get(e, "bullets"), Get(e, "items"), Get(e, "lines")>>
TitleAliases(e) == <<Get(e, "title"), Get(e, "name")>>

\* the normalised box carries the bullets an alias of e supplies
BulletsHonoured(e, box, strict) ==
  AliasUsed(BulletAliases(e), UsableBullets,
            LAMBDA v : StrList(_normalize_list(v, BulletLimit, <<>>)),
            box.d.bullets, strict)

\* the normalised box carries the title and the bullets the aliases of the
\* list entry e supply
EntryHonoured(e, box, cap, strict) ==
  /\ AliasUsed(TitleAliases(e), UsableTitle, LAMBDA v : Str(Take(Strip(v.s), cap)),
               box.d.title, strict)
  /\ BulletsHonoured(e, box, strict)

\* a list entry with usable content under some alias
UsableEntry(e, strict) ==
  /\ e.k = "dict"
  /\ \/ \E j \in 1..2 : UsableTitle(TitleAliases(e)[j])
     \/ \E j \in 1..3 : UsableBullets(BulletAliases(e)[j])
  /\ strict \/ (~Shadowed(TitleAliases(e), UsableTitle)
                  /\ ~Shadowed(BulletAliases(e), UsableBullets))

\* a list of lo..hi entries, all of them usable
UsableList(v, lo, hi, strict) ==
  /\ v.k = "list"
  /\ Len(v.xs) \in lo..hi
  /\ \A i \in 1..Len(v.xs) : UsableEntry(v.xs[i], strict)

\* when an alias of vals carries a usable list, the normalised boxes start
\* with the boxes of one that does
ListHonoured(vals, lo, hi, boxes, cap, strict) ==
  LET Usable(v) == UsableList(v, lo, hi, strict)
  IN ((\E j \in 1..Len(vals) : Usable(vals[j])) /\ (strict \/ ~Shadowed(vals, Usable)))
       => \E j \in 1..Len(vals) :
            /\ Usable(vals[j])
            /\ Len(boxes) >= Len(vals[j].xs)
            /\ \A i \in 1..Len(vals[j].xs) :
                 EntryHonoured(vals[j].xs[i], boxes[i], cap, strict)

\* the current call's normalised spec carries what the aliases supply
AliasesHonoured(strict) ==
  (SpecReady /\ RawArg.k = "dict") =>
    /\ dt = TechnicalRoute =>
         /\ ListHonoured(<<Get(RawArg, "stages"), Get(RawArg, "steps")>>,
                         StageMin, StageMax, norm_spec.d.stages.xs, StageTitleCap, strict)
         /\ UsableList(Get(RawArg, "stages"), StageMin, StageMax, strict)
              => Len(norm_spec.d.stages.xs) = Len(Get(RawArg, "stages").xs)
    /\ dt = ResearchFramework =>
         /\ ListHonoured(<<Get(RawArg, "work_packages"), Get(RawArg, "modules"),
                           Get(RawArg, "wps")>>,
                         1, WpTotal, norm_spec.d.work_packages.xs, BoxTitleCap, strict)
         /\ \A key \in {"goal", "hypotheses", "support", "outcomes"} :
              Get(RawArg, key).k = "dict" =>
                BulletsHonoured(Get(RawArg, key), norm_spec.d[key], strict)

\* what does hold: the content of an alias is used unless an earlier alias
\* holds a truthy value without usable content
AliasUsedUnlessShadowed == AliasesHonoured(FALSE)

\* C23: whenever an alias of a field (bullets / items / lines, title / name,
\* stages / steps, work_packages / modules / wps) carries usable content, the
\* normalised spec carries that content, a bare non-blank string given as
\* bullets becoming a one-element bullet list.
C23_AliasContentUsed == AliasesHonoured(TRUE)

\* ------------------------------------------------------------------------
\* C24: without Pillow the configuration error is raised before any render
\* call starts its work: no call gets as far as normalising its input, and
\* the RuntimeError never ends a call that has normalised.
C24_ConfigErrorNotMidRender ==
  /\ ~pillow => (pc # "render" /\ "normalize" \notin Range(steps))
  /\ result = Raise("RuntimeError") => "normalize" \notin Range(steps)

\* ------------------------------------------------------------------------
\* C26: the lines _wrap_text returns, put end to end, are the stripped text
\* without its newlines; no returned line is empty, and a text of blanks and
\* newlines only yields no line at all.
C26_WrapKeepsCharacters ==
  wrap_call.k = "_wrap_text" =>
    /\ Flatten(wrap_call.lines)
         = SelectSeq(Strip(wrap_call.text), LAMBDA c : c # "\n")
    /\ \A i \in 1..Len(wrap_call.lines) : wrap_call.lines[i] # <<>>
    /\ (\A p \in 1..Len(wrap_call.text) : IsSpace(wrap_call.text[p]))
         => wrap_call.lines = <<>>

\* a text with a blank in front came back as two lines holding its two
\* other characters
C26_Witness ==
  /\ wrap_call.k = "_wrap_text"
  /\ wrap_call.text = <<" ", "a", "ren">>
  /\ wrap_call.lines = << <<"a">>, <<"ren">> >>

\* ------------------------------------------------------------------------
\* where the bullets list of the box kept for list entry e was made: the
\* list _normalize_list returned, or the list literal of the defaults
EntryBulletsOrigin(e) ==
  IF _normalize_list(BulletsOf(e), BulletLimit, <<>>) # <<>>
  THEN _normalize_list_origin(BulletsOf(e), <<>>)
  ELSE "fresh"

\* where the mutable objects of the current call's normalised spec were
\* made, by place: the spec dict, the list of boxes, and for each box its
\* dict (a dict display in every case) and its bullets list
SpecOrigins ==
  IF dt = TechnicalRoute
  THEN LET given == StagesOf(RawArg)
           Kept(v) ==
             [spec |-> "fresh", list |-> "fresh",
              boxes |-> [m \in 1..Len(norm_spec.d.stages.xs) |-> "fresh"],
              bullets |-> [m \in 1..Len(norm_spec.d.stages.xs) |->
                             IF v >= StageMin
                             THEN EntryBulletsOrigin(NthValid(given, m))
                             ELSE "fresh"]]
       IN Kept(ValidUpTo(given, Len(given)))
  ELSE LET given == WpsOf(RawArg)
           keys == <<"goal", "hypotheses", "support", "outcomes">>
           Part(key) == LET raw0 == Or(Get(RawArg, key), EmptyDict)
                        IN IF raw0.k = "dict" THEN raw0 ELSE EmptyDict
           Kept(v) ==
             [spec |-> "fresh", list |-> "fresh",
              boxes |-> [m \in 1..(WpTotal + 4) |-> "fresh"],
              bullets |-> [m \in 1..(WpTotal + 4) |->
                             IF m <= Min(v, WpTotal)
                             THEN EntryBulletsOrigin(NthValid(given, m))
                             ELSE IF m <= WpTotal THEN "fresh"
                             ELSE _normalize_list_origin(BulletsOf(Part(keys[m - WpTotal])),
                                                         <<>>)]]
       IN Kept(ValidUpTo(given, Len(given)))

\* every mutable object of the normalised spec was made by the current call
AllFresh(o) ==
  /\ o.spec = "fresh"
  /\ o.list = "fresh"
  /\ \A m \in DOMAIN o.boxes : o.boxes[m] = "fresh" /\ o.bullets[m] = "fresh"

BoxesLaidOut(B, height, gap) ==
  /\ \A i \in 1..Len(B) :
       /\ 0 <= B[i].x /\ B[i].x + B[i].w <= Width
       /\ 0 <= B[i].y /\ B[i].y + B[i].h <= height
  /\ \A i, j \in 1..Len(B) :
       \/ i = j
       \/ B[i].y = B[j].y /\ (B[i].x + B[i].w <= B[j].x \/ B[j].x + B[j].w <= B[i].x)
       \/ B[i].y < B[j].y /\ B[i].y + B[i].h < B[j].y
       \/ B[j].y < B[i].y /\ B[j].y + B[j].h < B[i].y
  /\ \A i, j \in 1..Len(B) :
       \* j is in the row next below the row of i
       (B[i].y < B[j].y /\ ~\E m \in 1..Len(B) : B[i].y < B[m].y /\ B[m].y < B[j].y)
         => B[j].y - (B[i].y + B[i].h) = gap

\* C28: in every layout rendered, each box rectangle lies inside the canvas,
\* boxes of one row do not overlap, and each row starts below every box of
\* the row before it: 44 px below in the sequential stack, 36 px below in
\* the hierarchical layout.
C28_BoxesInsideAndApart ==
  OutReady =>
    /\ out.png.w = Width
    /\ dt = TechnicalRoute =>
         BoxesLaidOut(SvgBoxRects, out.png.h, TrGap + TrArrowGap)
    /\ dt = ResearchFramework =>
         BoxesLaidOut(SvgBoxRects, out.png.h, RfGap + 10)

\* a hierarchical layout taller than its floor, with its seven boxes in
\* four rows, two of them holding more than one box
C28_Witness ==
  /\ OutReady
  /\ dt = ResearchFramework
  /\ Len(SvgBoxRects) = 7
  /\ out.png.h > RfFloor
  /\ Cardinality({SvgBoxRects[i].y : i \in 1..7}) = 4

\* ------------------------------------------------------------------------
\* the five entities and the characters they stand for
XmlEntities ==
  { <<"&", <<"&", "a", "m", "p", ";">> >>, <<"<", <<"&", "l", "t", ";">> >>,
    <<">", <<"&", "g", "t", ";">> >>, <<"\"", <<"&", "q", "u", "o", "t", ";">> >>,
    <<"'", <<"&", "a", "p", "o", "s", ";">> >> }

\* the entity that starts at position p of c, if one does
EntityAt(c, p) ==
  { e \in XmlEntities : p + Len(e[2]) - 1 <= Len(c) /\ SubSeq(c, p, p + Len(e[2]) - 1) = e[2] }

RECURSIVE XmlDecode(_, _)
\* what an XML reader makes of the character data c from position p on
XmlDecode(c, p) ==
  IF p > Len(c) THEN <<>>
  ELSE IF EntityAt(c, p) # {}
  THEN LET e == CHOOSE e \in EntityAt(c, p) : TRUE
       IN <<e[1]>> \o XmlDecode(c, p + Len(e[2]))
  ELSE <<c[p]>> \o XmlDecode(c, p + 1)

\* no markup character, and every ampersand starts an entity
WellEscaped(c) ==
  \A p \in 1..Len(c) :
    /\ c[p] \notin {"<", ">", "\"", "'"}
    /\ c[p] = "&" => EntityAt(c, p) # {}

\* C30: every text written into the vector document (diagram title, box
\* titles, wrapped body lines) is the _escape_xml of the text drawn on the
\* raster; it holds none of < > " ', each of its ampersands starts one of the
\* five entities, and it reads back as the text supplied, no entity being
\* escaped twice.
C30_SvgTextEscaped ==
  OutReady =>
    /\ Len(SvgTexts) = Len(PngTexts)
    /\ \A j \in 1..Len(SvgTexts) :
         /\ SvgTexts[j].content = _escape_xml(PngTexts[j].text)
         /\ WellEscaped(SvgTexts[j].content)
         /\ XmlDecode(SvgTexts[j].content, 1) = PngTexts[j].text

\* a body line holding <, ' and the text of an entity was written escaped
C30_Witness ==
  /\ OutReady
  /\ \E j \in 1..Len(SvgTexts) :
       /\ PngTexts[j].text = BulletPrefix \o <<"a", "<", "'", "&", "l", "t", ";">>
       /\ SvgTexts[j].content =
            BulletPrefix \o <<"a", "&", "l", "t", ";", "&", "a", "p", "o", "s", ";",
                              "&", "a", "m", "p", ";", "l", "t", ";">>

\* ------------------------------------------------------------------------
\* api/routes/chat.py: _split_infographic_points
\* ------------------------------------------------------------------------
\* characters outside ASCII are written by name: "dun" is the ideographic
\* comma, "fsemi" the full-width semicolon, "bullet" the bullet

RECURSIVE SplitOnNewline(_)
\* source.split("\n")
SplitOnNewline(s) ==
  IF \A p \in 1..Len(s) : s[p] # "\n" THEN <<s>>
  ELSE LET p == CHOOSE q \in 1..Len(s) : s[q] = "\n" /\ \A m \in 1..(q - 1) : s[m] # "\n"
       IN <<SubSeq(s, 1, p - 1)>> \o SplitOnNewline(SubSeq(s, p + 1, Len(s)))

RECURSIVE DropLeading(_, _)
\* s without its leading run of characters of set
DropLeading(s, set) ==
  IF s # <<>> /\ Head(s) \in set THEN DropLeading(Tail(s), set) ELSE s

RECURSIVE DropTrailing(_, _)
DropTrailing(s, set) ==
  IF s # <<>> /\ s[Len(s)] \in set THEN DropTrailing(SubSeq(s, 1, Len(s) - 1), set) ELSE s

\* re.sub(r"^\d+[.)、]\s*", "", s)
StripNumbering(s) ==
  LET Cut(rest) ==
        IF rest # s /\ rest # <<>> /\ Head(rest) \in {".", ")", "dun"}
        THEN DropLeading(Tail(rest), {" "})
        ELSE s
  IN Cut(DropLeading(s, {DigitChar[i] : i \in 1..10}))

\* re.sub(r"^[•\-]\s*", "", s)
StripMarker(s) ==
  IF s # <<>> /\ Head(s) \in {"bullet", "-"} THEN DropLeading(Tail(s), {" "}) ELSE s

\* what one line of the text leaves: stripped, its numbering and marker
\* removed, then s.strip("；; ")
PointOf(line) ==
  LET Ends(s) == DropTrailing(DropLeading(s, {"fsemi", ";", " "}), {"fsemi", ";", " "})
  IN Ends(StripMarker(StripNumbering(Strip(line))))

\* (lines_text or "")
TextOf(v) == IF Truthy(v) THEN v.s ELSE <<>>

_split_infographic_points(lines_text) ==
  LET Pieces(lines) ==
        Take(SelectSeq([i \in 1..Len(lines) |-> PointOf(lines[i])],
                       LAMBDA s : s # <<>>), 12)
      source == Strip(TextOf(lines_text))
  IN IF source = <<>> THEN <<>> ELSE Pieces(SplitOnNewline(source))

\* ------------------------------------------------------------------------
\* api/routes/chat.py: _build_local_infographic_spec
\* ------------------------------------------------------------------------
\* "研究目标与问题定义", "方法与技术路径", "实验验证与成果输出"
RouteDefaultPieces ==
  << <<"yan", "jiu", "mu", "biao", "yu", "wen", "ti", "ding", "yi">>,
     <<"fang", "fa", "yu", "ji", "shu", "lu", "jing">>,
     <<"shi", "yan", "yan", "zheng", "yu", "cheng", "guo", "shu", "chu">> >>

\* s[a:b] for 0 <= a <= b
Slice(s, a, b) == SubSeq(s, a + 1, Min(b, Len(s)))

\* s[-3:]
LastThree(s) == SubSeq(s, Max(1, Len(s) - 2), Len(s))

\* a or b, for lists
OrList(a, b) == IF a # <<>> THEN a ELSE b

\* f"阶段{n}"
RouteStageTitle(n) == <<"jie", "duan">> \o Digits(n)

\* spec[key] = v
Put(spec, key, v) == Dict((key :> v) @@ spec.d)

\* if not spec.get(key): spec[key] = v
PutIfMissing(spec, key, v) == IF Truthy(Get(spec, key)) THEN spec ELSE Put(spec, key, v)

\* raw_spec if isinstance(raw_spec, dict) else {}
SpecOrEmpty(raw) == IF raw.k = "dict" THEN raw ELSE EmptyDict

RECURSIVE SplitStagesLoop(_, _, _, _)
\* while cursor < len(pieces) and len(split_stages) < 5
SplitStagesLoop(pieces, chunk_size, cursor, split_stages) ==
  IF cursor < Len(pieces) /\ Len(split_stages) < 5
  THEN SplitStagesLoop(pieces, chunk_size, cursor + chunk_size,
                       Append(split_stages,
                              Box(RouteStageTitle(Len(split_stages) + 1),
                                  Slice(pieces, cursor, cursor + chunk_size))))
  ELSE split_stages

\* the stages made of the points when the spec brings no stage list
SplitStages(pieces) ==
  LET OrThree(split_stages) ==
        IF Len(split_stages) < 3
        THEN << Box(RouteStageTitle(1), Slice(pieces, 0, 3)),
                Box(RouteStageTitle(2), OrList(Slice(pieces, 1, 4), Slice(pieces, 0, 3))),
                Box(RouteStageTitle(3), OrList(LastThree(pieces), Slice(pieces, 0, 3))) >>
        ELSE split_stages
  IN OrThree(SplitStagesLoop(pieces, Max(2, Min(3, Len(pieces))), 0, <<>>))

\* the request type handed on to the renderer as it came
RenderTypeOf_Same(diagram_type) == PyStr(diagram_type)

\* the renderer the request type is served by
RenderTypeOf(diagram_type) ==
  IF diagram_type = Str(ResearchFramework) THEN ResearchFramework ELSE TechnicalRoute

\* the spec of the hierarchical branch
BuildFrameworkSpec(spec, pieces) ==
  PutIfMissing(
    PutIfMissing(
      PutIfMissing(
        PutIfMissing(
          PutIfMissing(spec, "goal", Box(GoalDefaultTitle, Slice(pieces, 0, 3))),
          "hypotheses",
          Box(HypDefaultTitle, OrList(Slice(pieces, 1, 4), Slice(pieces, 0, 3)))),
        "support",
        Box(SupDefaultTitle, OrList(Slice(pieces, 2, 5), Slice(pieces, 0, 3)))),
      "work_packages",
      List(<< Box(WpPadTitle(1), Slice(pieces, 0, 3)),
              Box(WpPadTitle(2), OrList(Slice(pieces, 1, 4), Slice(pieces, 0, 3))),
              Box(WpPadTitle(3), OrList(Slice(pieces, 2, 5), Slice(pieces, 0, 3))) >>)),
    "outcomes",
    Box(OutDefaultTitle, OrList(LastThree(pieces), Slice(pieces, 0, 3))))

\* the spec of the sequential branch
BuildRouteSpec(spec, pieces, title) ==
  LET Staged(stages) ==
        IF stages.k # "list" \/ stages.xs = <<>>
        THEN Put(spec, "stages", List(SplitStages(pieces)))
        ELSE spec
  IN Put(Staged(Get(spec, "stages")), "title", title)

_build_local_infographic_spec(diagram_type, raw, lines_text, title) ==
  LET Built(pieces) ==
        IF RenderTypeOf(diagram_type) = ResearchFramework
        THEN [render_type |-> RenderTypeOf(diagram_type),
              render_spec |-> BuildFrameworkSpec(SpecOrEmpty(raw), pieces)]
        ELSE [render_type |-> RenderTypeOf(diagram_type),
              render_spec |-> BuildRouteSpec(SpecOrEmpty(raw), pieces, title)]
  IN Built(OrList(_split_infographic_points(lines_text), RouteDefaultPieces))

\* render_infographic_png_svg(render_type, render_spec, title=title) as the
\* helper calls it
RenderBuilt(built, title) ==
  Alone([dt |-> Str(built.render_type), raw |-> built.render_spec, title |-> title])

\* ------------------------------------------------------------------------
\* _render_local_infographic_assets called directly, with any arguments
\* ------------------------------------------------------------------------
RECURSIVE JoinLines(_)
\* "\n".join(ps)
JoinLines(ps) ==
  IF ps = <<>> THEN <<>>
  ELSE IF Len(ps) = 1 THEN ps[1]
  ELSE ps[1] \o <<"\n">> \o JoinLines(Tail(ps))

\* n points, "a" and "b" in turn, one per line
PointLines(n) == JoinLines([i \in 1..n |-> IF i % 2 = 1 THEN <<"a">> ELSE <<"b">>])

\* request types: the four the handler lets through and others
AssetsTypes ==
  { None, Str(<<>>), Str(TechnicalRoute), Str(ResearchFramework), Str(<<"freestyle">>),
    Str(<<"infographic">>), Str(<<"unknown_type">>), Str(<<" ">> \o ResearchFramework) }

\* raw specs: no dict at all, dicts without and with usable parts
AssetsRaws ==
  { None, Num(5), Str(<<"a">>), List(<<FillA, FillB, FillA>>), EmptyDict,
    Dict([stages |-> List(<<>>)]), Dict([stages |-> Str(<<"a">>)]),
    Dict([stages |-> List(<<FillA, FillB, FillA, FillB>>)]),
    Dict([stages |-> List(<<Num(5)>>), title |-> Num(0)]),
    Dict([goal |-> Num(0), support |-> FillB]),
    Dict([goal |-> FillA, hypotheses |-> Str(<<"a">>),
          work_packages |-> List(<<FillB>>), outcomes |-> List(<<>>)]) }

\* texts of points: none, numbered and marked lines, lines that leave
\* nothing, and MaxPoints plain lines
AssetsLines ==
  { None, Str(<<>>), Str(<<" ", "\n">>), Str(<<"a">>),
    Str(<<"1", ".", " ", "a", "\n", "-", " ", "b", "\n", "\n", "bullet", " ", "a",
          ";">>),
    Str(<<"1", "2", ")", "a", "\n", "3", "dun", " ", "b", "\n", "-", " ", " ", "-",
          "a", "\n", ";", "fsemi", " ", "a", " ", ";">>),
    Str(<<"1", ".", "\n", "-", "\n", ";">>),
    Str(<<" ", "1", " ", ".", " ", "a", "\n", "1", "a", "\n", ".", "a">>),
    Str(PointLines(2)), Str(PointLines(4)), Str(PointLines(7)),
    Str(PointLines(MaxPoints)) }

\* _render_local_infographic_assets(diagram_type, raw_spec, lines_text, title)
\* up to its return statement or the exception that leaves it
AssetsResult(diagram_type, raw, lines_text, title) ==
  LET Called(built) ==
        [k |-> "call", diagram_type |-> diagram_type, raw_spec |-> raw,
         lines_text |-> lines_text, built |-> built,
         result |-> RenderBuilt(built, title)]
  IN Called(_build_local_infographic_spec(diagram_type, raw, lines_text, title))

AssetsCall ==
  /\ assets_call = NoAssets
  /\ \E diagram_type \in AssetsTypes, raw \in AssetsRaws, lines_text \in AssetsLines :
       assets_call' = AssetsResult(diagram_type, raw, lines_text, Str(<<"R">>))
  /\ UNCHANGED <<seq_vars, threads, wrap_call, pillow, font_files, loop, requests>>

\* the caller has taken the result
AssetsTaken ==
  /\ assets_call # NoAssets
  /\ assets_call' = NoAssets
  /\ UNCHANGED <<seq_vars, threads, wrap_call, pillow, font_files, loop, requests>>

NextAssets == AssetsCall \/ AssetsTaken

SpecAssets == Init /\ [][NextAssets]_vars

\* ------------------------------------------------------------------------
\* generate_diagram: coroutines of the requests on the one thread of the
\* event loop.  loop is the request whose coroutine holds the thread (0 when
\* the thread is free); a coroutine gives the thread up only at an await.
\* ------------------------------------------------------------------------
\* diagram types the handler lets through
HandlerTypes ==
  { Str(TechnicalRoute), Str(ResearchFramework), Str(<<"freestyle">>),
    Str(<<"infographic">>) }

\* what the awaited spec generation hands back
ServeRaws ==
  { EmptyDict, Dict([stages |-> List(<<FillA, FillB, FillA>>)]),
    Dict([goal |-> FillA, work_packages |-> List(<<FillB>>)]) }

\* requirement lines of the request
ServeLines == { Str(<<>>), Str(PointLines(4)) }

\* a request arrives and its coroutine runs to the await of
\* _generate_local_infographic_spec_via_skill, where it gives the thread up
Receive(r) ==
  /\ loop = 0
  /\ requests[r].pc = "none"
  /\ \E diagram_type \in HandlerTypes, lines_text \in ServeLines :
       requests' = [requests EXCEPT ![r] =
                      [IdleRequest EXCEPT !.pc = "await_spec",
                                          !.diagram_type = diagram_type,
                                          !.lines_text = lines_text]]
  /\ UNCHANGED <<seq_vars, threads, wrap_call, pillow, font_files, loop, assets_call>>

\* the awaited spec is there and the free thread takes the coroutine up
\* again; it runs on to the call of _render_local_infographic_assets
Resume(r) ==
  /\ loop = 0
  /\ requests[r].pc = "await_spec"
  /\ loop' = r
  /\ \E raw \in ServeRaws :
       requests' = [requests EXCEPT ![r].pc = "build", ![r].raw_spec = raw]
  /\ UNCHANGED <<seq_vars, threads, wrap_call, pillow, font_files, assets_call>>

\* _render_local_infographic_assets, called in the coroutine itself:
\* _build_local_infographic_spec
BuildSpec(r) ==
  /\ loop = r
  /\ requests[r].pc = "build"
  /\ requests' = [requests EXCEPT
                    ![r].pc = "render",
                    ![r].built = _build_local_infographic_spec(
                                   requests[r].diagram_type, requests[r].raw_spec,
                                   requests[r].lines_text, Str(<<"R">>))]
  /\ UNCHANGED <<seq_vars, threads, wrap_call, pillow, font_files, loop, assets_call>>

\* render_infographic_png_svg, still in the coroutine: no await, no
\* to_thread, no executor between the call and its return
RenderInline(r) ==
  /\ loop = r
  /\ requests[r].pc = "render"
  /\ requests' = [requests EXCEPT
                    ![r].pc = "respond",
                    ![r].result = RenderBuilt(requests[r].built, Str(<<"R">>))]
  /\ UNCHANGED <<seq_vars, threads, wrap_call, pillow, font_files, loop, assets_call>>

\* the response (or the HTTPException made of the error) leaves and the
\* coroutine ends, which frees the thread
Respond(r) ==
  /\ loop = r
  /\ requests[r].pc = "respond"
  /\ loop' = 0
  /\ requests' = [requests EXCEPT ![r] = IdleRequest]
  /\ UNCHANGED <<seq_vars, threads, wrap_call, pillow, font_files, assets_call>>

NextServe ==
  \E r \in Requests :
    Receive(r) \/ Resume(r) \/ BuildSpec(r) \/ RenderInline(r) \/ Respond(r)

SpecServe == Init /\ [][NextServe]_vars

\* the render of request r is running
Rendering(r) == requests[r].pc \in {"build", "render"}

\* request q waits for nothing but the thread
Pending(q) == requests[q].pc = "await_spec"

\* C25: the handler gives each local render to a worker thread or a process
\* pool, so that while the render of one request runs, another request that
\* is pending can be taken up again.
C25_RenderOffloaded ==
  \A r \in Requests, q \in Requests :
    (r # q /\ Rendering(r) /\ Pending(q)) => ENABLED Resume(q)

\* what the code does instead: while a render runs, the thread of the loop
\* is held by the rendering request and no other request takes a step
RenderHoldsLoop ==
  \A r \in Requests :
    Rendering(r) =>
      /\ loop = r
      /\ \A q \in Requests \ {r} :
           ~ ENABLED (Receive(q) \/ Resume(q) \/ BuildSpec(q) \/ RenderInline(q)
                        \/ Respond(q))

\* ------------------------------------------------------------------------
\* what a call of the helper handed to render_infographic_png_svg and how
\* that call ended
HelperSafe(c) ==
  /\ c.built.render_type \in Supported
  /\ c.built.render_spec.k = "dict"
  /\ c.result # Raise("ValueError")
  /\ c.result # Raise("AttributeError")
  /\ c.built.render_type =
       IF c.diagram_type = Str(ResearchFramework) THEN ResearchFramework
       ELSE TechnicalRoute

\* C29: whatever diagram_type, raw_spec and lines_text the helper is given,
\* it calls the renderer with one of the two supported types and a dict, so
\* that neither the ValueError of the dispatcher nor the failure on a non-dict
\* spec ends the call; research_framework alone is rendered as the
\* hierarchical layout, every other type as the sequential stack.
C29_HelperCallsAreValid ==
  assets_call # NoAssets => HelperSafe(assets_call)

\* a request of another type with a list as raw spec and four points came
\* out as the sequential stack of three stages made of the points
C29_Witness ==
  /\ assets_call # NoAssets
  /\ assets_call.diagram_type = Str(<<"freestyle">>)
  /\ assets_call.raw_spec.k = "list"
  /\ assets_call.lines_text = Str(PointLines(4))
  /\ assets_call.built.render_type = TechnicalRoute
  /\ assets_call.built.render_spec =
       Dict([title |-> Str(<<"R">>),
             stages |-> List(<< Box(<<"jie", "duan", "1">>, << <<"a">>, <<"b">>, <<"a">> >>),
                                Box(<<"jie", "duan", "2">>, << <<"b">>, <<"a">>, <<"b">> >>),
                                Box(<<"jie", "duan", "3">>, << <<"b">>, <<"a">>, <<"b">> >>) >>)])
  /\ assets_call.result.k = "return"
  /\ Len(assets_call.result.value[3].d.stages.xs) = 3

====
